---- MODULE Spec2Model ----
(***************************************************************************)
(* Analytics subsystem of genai-agentos: the agentexecutions and           *)
(* budgetalerts tables, the aggregation queries of                         *)
(* AgentExecutionRepository / BudgetAlertRepository and the /analytics     *)
(* routes that expose them.                                                *)
(*                                                                         *)
(* Conventions                                                             *)
(*   - a nullable column or an Optional value is <<>> (NULL / None) or     *)
(*     <<v>>;                                                              *)
(*   - a timestamp is an integer number of ticks, TicksPerDay ticks a day; *)
(*   - a cost is an integer number of cents (a Decimal is exact, so only   *)
(*     the unit is chosen);                                                *)
(*   - a float or Decimal quotient is the exact rational <<n, d>> in       *)
(*     lowest terms with d > 0.                                            *)
(***************************************************************************)
EXTENDS Integers, Sequences, FiniteSets, TLC

VARIABLES executions, traces, token_usages, alerts, nextAlertId, resp

vars == <<executions, traces, token_usages, alerts, nextAlertId, resp>>

-----------------------------------------------------------------------------
(* Bounds of the exploration *)

MaxExec == 2

MaxBatch == 10

MaxTime == 2

MaxAlerts == 2

MaxTraces == 2

MaxUsages == 1

MaxPage == 3

MaxSurplus == 1
\* executions seeded by one run of the seeding script, and number of runs
MaxSeedCount == 10
MaxSeeds == 2
\* execution times are below MaxTimeMs
MaxTimeMs == 23

-----------------------------------------------------------------------------
(* Optional values *)

Null == <<>>

Some(v) == <<v>>

\* Python's `x or 0` on a nullable number
OrZero(o) == IF o = Null THEN 0 ELSE o[1]

-----------------------------------------------------------------------------
(* Exact rationals *)

Abs(n) == IF n < 0 THEN 0 - n ELSE n

RECURSIVE Gcd(_, _)
Gcd(a, b) == IF b = 0 THEN a ELSE Gcd(b, a % b)

Rat(n, d) ==
    LET s == IF (n < 0) = (d < 0) THEN 1 ELSE 0 - 1
        g == Gcd(Abs(n), Abs(d))
    IN  <<s * (Abs(n) \div g), Abs(d) \div g>>

RatInt(n) == <<n, 1>>

RatSub(a, b) == Rat(a[1] * b[2] - b[1] * a[2], a[2] * b[2])

RatDiv(a, b) == Rat(a[1] * b[2], a[2] * b[1])

RatMulInt(a, k) == Rat(a[1] * k, a[2])

RatZero == RatInt(0)

-----------------------------------------------------------------------------
(* Schema *)

TicksPerDay == 2

Times == 0 .. MaxTime

Users == {"u1", "u2"}

ExecutionStatus == {"pending", "running", "success", "failure", "timeout", "cancelled"}

\* One row of agentexecutions; its id is its position in `executions`.
AgentExecution(user_id, agent_id, agent_name, agent_type, model_name, status, started_at, execution_time_ms, input_tokens, output_tokens, cost_usd) ==
    [user_id |-> user_id, agent_id |-> agent_id, agent_name |-> agent_name,
     agent_type |-> agent_type, model_name |-> model_name, status |-> status,
     started_at |-> started_at, execution_time_ms |-> execution_time_ms,
     input_tokens |-> input_tokens, output_tokens |-> output_tokens,
     total_tokens |-> input_tokens + output_tokens, cost_usd |-> cost_usd]

-----------------------------------------------------------------------------
(* SQL aggregates over a column (a sequence of non-null numbers) *)

RECURSIVE SumSeq(_)
SumSeq(col) == IF col = <<>> THEN 0 ELSE Head(col) + SumSeq(Tail(col))

\* SUM is NULL over no rows
SqlSum(col) == IF col = <<>> THEN Null ELSE Some(SumSeq(col))

\* AVG is NULL over no rows
SqlAvg(col) == IF col = <<>> THEN Null ELSE Some(Rat(SumSeq(col), Len(col)))

\* the values of column f of the rows
Column(rows, f) == [i \in 1 .. Len(rows) |-> rows[i][f]]

\* func.sum(case((status == s, 1), else_=0))
StatusCase(rows, s) == [i \in 1 .. Len(rows) |-> IF rows[i].status = s THEN 1 ELSE 0]

\* float(x or 0) of a nullable average
AvgOrZero(o) == IF o = Null THEN RatZero ELSE o[1]

-----------------------------------------------------------------------------
(* AgentExecutionRepository.get_overview *)

\* the owner condition left out
UserFilter_Any(r, user_id) == TRUE

\* if user_id: filters.append(self.model.user_id == user_id)
UserFilter(r, user_id) == user_id = Null \/ r.user_id = user_id

\* the filter without the owner condition
OverviewFilter_AnyUser(r, user_id, start_date, end_date) ==
    /\ r.started_at >= start_date
    /\ r.started_at <= end_date

OverviewFilter(r, user_id, start_date, end_date) ==
    /\ r.started_at >= start_date
    /\ r.started_at <= end_date
    /\ UserFilter(r, user_id)

\* the previous period closed at its end
PrevFilter_Closed(r, user_id, prev_start, prev_end) ==
    /\ r.started_at >= prev_start
    /\ r.started_at <= prev_end
    /\ UserFilter(r, user_id)

PrevFilter(r, user_id, prev_start, prev_end) ==
    /\ r.started_at >= prev_start
    /\ r.started_at < prev_end
    /\ UserFilter(r, user_id)

\* the rate with a non-zero fallback for an empty window
SuccessRate_EmptyIsFull(successful, total) ==
    IF total > 0 THEN Rat(successful * 100, total) ELSE RatInt(100)

SuccessRate(successful, total) ==
    IF total > 0 THEN Rat(successful * 100, total) ELSE RatZero

\* a zero baseline reported as no change
calc_change_ZeroBaseline(current, previous) ==
    IF previous = RatZero THEN RatZero
    ELSE RatMulInt(RatDiv(RatSub(current, previous), previous), 100)

calc_change(current, previous) ==
    IF previous = RatZero THEN Null
    ELSE RatMulInt(RatDiv(RatSub(current, previous), previous), 100)

\* the time query: the execution_time_ms values > 0 of the window's rows in
\* the order the rows are stored
PositiveTimes_Unsorted(cur) ==
    SelectSeq(Column(cur, "execution_time_ms"), LAMBDA t : t > 0)

\* ... ORDER BY execution_time_ms
PositiveTimes(cur) ==
    SortSeq(SelectSeq(Column(cur, "execution_time_ms"), LAMBDA t : t > 0),
            LAMBDA a, b : a < b)

\* len(times) // 2
MedianIndex(n) == n \div 2

\* the rank rounded up to the next index
PercentileIndex_Ceil(n, hundredths) ==
    IF (n * hundredths + 99) \div 100 < n THEN (n * hundredths + 99) \div 100 ELSE n - 1

\* int(len(times) * 0.95), int(len(times) * 0.99): the float product, truncated,
\* is the whole part of n * 95 / 100 and n * 99 / 100 for every n below 200000
PercentileIndex(n, hundredths) == (n * hundredths) \div 100

\* times[index] if times else 0, on a zero-based index
Percentile(times, index) == IF times = <<>> THEN 0 ELSE times[index + 1]

\* prev_query and the four values taken from its row
prev_query(rows, user_id, prev_start, prev_end) ==
    LET prev == SelectSeq(rows, LAMBDA r : PrevFilter(r, user_id, prev_start, prev_end))
        prev_total == Len(prev)
        prev_successful == OrZero(SqlSum(StatusCase(prev, "success")))
    IN  [prev_total |-> prev_total,
         prev_success_rate |-> SuccessRate(prev_successful, prev_total),
         prev_avg_time |-> AvgOrZero(SqlAvg(Column(prev, "execution_time_ms"))),
         prev_cost |-> OrZero(SqlSum(Column(prev, "cost_usd")))]

\* period_length.days: the whole days of a difference of two clock readings
TimedeltaDays(period_length) == period_length \div TicksPerDay

\* the estimate left at 30 times the window's cost whatever the window's length
MonthlyCost_Unscaled(total_cost, days) == RatInt(total_cost * 30)

\* total_cost * 30 if period_length.days == 1
\* else total_cost * 30 / max(period_length.days, 1)
MonthlyCost(total_cost, days) ==
    IF days = 1 THEN RatInt(total_cost * 30)
    ELSE Rat(total_cost * 30, IF days > 1 THEN days ELSE 1)

get_overview(rows, user_id, start_date, end_date) ==
    LET cur == SelectSeq(rows, LAMBDA r : OverviewFilter(r, user_id, start_date, end_date))
        total_executions == Len(cur)
        successful_executions == OrZero(SqlSum(StatusCase(cur, "success")))
        failed_executions == OrZero(SqlSum(StatusCase(cur, "failure")))
        success_rate == SuccessRate(successful_executions, total_executions)
        avg_time == AvgOrZero(SqlAvg(Column(cur, "execution_time_ms")))
        total_cost == OrZero(SqlSum(Column(cur, "cost_usd")))
        times == PositiveTimes(cur)
        period_length == end_date - start_date
        prev_start == start_date - period_length
        prev_end == start_date
        prev_metrics == prev_query(rows, user_id, prev_start, prev_end)
        prev_total == prev_metrics.prev_total
        prev_success_rate == prev_metrics.prev_success_rate
        prev_avg_time == prev_metrics.prev_avg_time
        prev_cost == prev_metrics.prev_cost
    IN  [total_executions |-> total_executions,
         successful_executions |-> successful_executions,
         failed_executions |-> failed_executions,
         success_rate |-> success_rate,
         avg_execution_time_ms |-> avg_time,
         p50_execution_time_ms |-> Percentile(times, MedianIndex(Len(times))),
         p95_execution_time_ms |-> Percentile(times, PercentileIndex(Len(times), 95)),
         p99_execution_time_ms |-> Percentile(times, PercentileIndex(Len(times), 99)),
         total_input_tokens |-> OrZero(SqlSum(Column(cur, "input_tokens"))),
         total_output_tokens |-> OrZero(SqlSum(Column(cur, "output_tokens"))),
         total_tokens |-> OrZero(SqlSum(Column(cur, "total_tokens"))),
         total_cost_usd |-> total_cost,
         estimated_monthly_cost_usd |->
             MonthlyCost(total_cost, TimedeltaDays(period_length)),
         executions_change_percent |->
             calc_change(RatInt(total_executions), RatInt(prev_total)),
         execution_time_change_percent |-> calc_change(avg_time, prev_avg_time),
         success_rate_change_percent |-> calc_change(success_rate, prev_success_rate),
         cost_change_percent |-> calc_change(RatInt(total_cost), RatInt(prev_cost))]

-----------------------------------------------------------------------------
(* Operations *)

NoResp == [op |-> "none"]

\* An execution row is written (CRUDBase.create / the seed script's INSERT)
CreateExecution(row) ==
    /\ executions' = Append(executions, row)
    /\ resp' = [op |-> "create_execution", id |-> Len(executions) + 1]
    /\ UNCHANGED <<traces, token_usages, alerts, nextAlertId>>


-----------------------------------------------------------------------------
(* Budget alerts: schema and table access *)

BudgetScope == {"user", "agent", "flow", "global"}

BudgetAlertType == {"warning", "hard_stop"}

\* BudgetAlertCreate with its defaults filled in; data holds <<>> for an absent field
BudgetAlertCreate(data) ==
    [scope |-> IF data.scope = Null THEN "user" ELSE data.scope[1],
     scope_id |-> data.scope_id,
     threshold_usd |-> data.threshold_usd,
     period_days |-> IF data.period_days = Null THEN 30 ELSE data.period_days[1],
     alert_type |-> IF data.alert_type = Null THEN "warning" ELSE data.alert_type[1],
     alert_at_percentage |->
         IF data.alert_at_percentage = Null THEN 80 ELSE data.alert_at_percentage[1],
     webhook_url |-> Null,
     email_notification |-> TRUE]

\* Field(ge=1, le=100), always in range
PercentageInRange_Any(p) == TRUE

\* Field(ge=1, le=100)
PercentageInRange(p) == p >= 1 /\ p <= 100

ValidCreate(data) == PercentageInRange(BudgetAlertCreate(data).alert_at_percentage)

ValidUpdate(data) ==
    data.alert_at_percentage # Null => PercentageInRange(data.alert_at_percentage[1])

\* the row built without the request's period_days (the column default applies)
BudgetAlert_NoPeriod(user_id, alert_data) ==
    [user_id |-> user_id,
     scope |-> alert_data.scope,
     scope_id |-> alert_data.scope_id,
     threshold_usd |-> alert_data.threshold_usd,
     period_days |-> 30,
     alert_type |-> alert_data.alert_type,
     alert_at_percentage |-> alert_data.alert_at_percentage,
     webhook_url |-> alert_data.webhook_url,
     email_notification |-> alert_data.email_notification,
     is_active |-> TRUE,
     last_alert_sent_at |-> Null,
     current_spend_usd |-> 0]

\* The row the create route builds, with the column defaults of the table
BudgetAlert(user_id, alert_data) ==
    [user_id |-> user_id,
     scope |-> alert_data.scope,
     scope_id |-> alert_data.scope_id,
     threshold_usd |-> alert_data.threshold_usd,
     period_days |-> alert_data.period_days,
     alert_type |-> alert_data.alert_type,
     alert_at_percentage |-> alert_data.alert_at_percentage,
     webhook_url |-> alert_data.webhook_url,
     email_notification |-> alert_data.email_notification,
     is_active |-> TRUE,
     last_alert_sent_at |-> Null,
     current_spend_usd |-> 0]

BudgetAlertDTO(id, a) ==
    [id |-> id,
     user_id |-> a.user_id,
     scope |-> a.scope,
     scope_id |-> a.scope_id,
     threshold_usd |-> a.threshold_usd,
     period_days |-> a.period_days,
     alert_type |-> a.alert_type,
     alert_at_percentage |-> a.alert_at_percentage,
     webhook_url |-> a.webhook_url,
     email_notification |-> a.email_notification,
     is_active |-> a.is_active,
     last_alert_sent_at |-> a.last_alert_sent_at,
     current_spend_usd |-> a.current_spend_usd]

\* CRUDBase.get
crud_get(table, id) == IF id \in DOMAIN table THEN Some(table[id]) ELSE Null

\* CRUDBase.create
crud_create(table, id, row) == table @@ (id :> row)

\* CRUDBase.update: the fields the request sets are written, the others kept
crud_update(db_obj, obj_in) ==
    [f \in DOMAIN db_obj |->
        IF f \in DOMAIN obj_in /\ obj_in[f] # Null
        THEN (IF f = "webhook_url" THEN obj_in[f] ELSE obj_in[f][1])
        ELSE db_obj[f]]

\* CRUDBase.delete
crud_delete(table, id) == [i \in DOMAIN table \ {id} |-> table[i]]

\* the owner condition dropped
NotOwner_Never(alert, user) == FALSE

\* str(alert.user_id) != str(user.id)
NotOwner(alert, user) == alert.user_id # user

\* BudgetAlertRepository.get_active_by_user (the ids of the rows it returns)
get_active_by_user(table, user_id) ==
    {i \in DOMAIN table : table[i].user_id = user_id /\ table[i].is_active = TRUE}

-----------------------------------------------------------------------------
(* Budget alert routes *)

Reply(op, status, user, alert_id, data, body) ==
    [op |-> op, status |-> status, user |-> user, alert_id |-> alert_id,
     data |-> data, body |-> body]

\* GET /analytics/budgets
ListBudgetAlerts(user) ==
    /\ resp' = Reply("list_budgets", 200, user, Null, Null,
                     {BudgetAlertDTO(i, alerts[i]) : i \in get_active_by_user(alerts, user)})
    /\ UNCHANGED <<executions, traces, token_usages, alerts, nextAlertId>>

\* POST /analytics/budgets
CreateBudgetAlert(user, data) ==
    IF ~ValidCreate(data)
    THEN /\ resp' = Reply("create_budget", 422, user, Null, data, Null)
         /\ UNCHANGED <<executions, traces, token_usages, alerts, nextAlertId>>
    ELSE LET alert == BudgetAlert(user, BudgetAlertCreate(data))
         IN  /\ alerts' = crud_create(alerts, nextAlertId, alert)
             /\ nextAlertId' = nextAlertId + 1
             /\ resp' = Reply("create_budget", 200, user, Some(nextAlertId), data,
                              BudgetAlertDTO(nextAlertId, alert))
             /\ UNCHANGED <<executions, traces, token_usages>>

\* PATCH /analytics/budgets/{alert_id}
UpdateBudgetAlert(user, alert_id, data) ==
    LET alert == crud_get(alerts, alert_id)
    IN  IF ~ValidUpdate(data)
        THEN /\ resp' = Reply("update_budget", 422, user, Some(alert_id), data, Null)
             /\ UNCHANGED <<executions, traces, token_usages, alerts, nextAlertId>>
        ELSE IF alert = Null
        THEN /\ resp' = Reply("update_budget", 404, user, Some(alert_id), data, Null)
             /\ UNCHANGED <<executions, traces, token_usages, alerts, nextAlertId>>
        ELSE IF NotOwner(alert[1], user)
        THEN /\ resp' = Reply("update_budget", 403, user, Some(alert_id), data, Null)
             /\ UNCHANGED <<executions, traces, token_usages, alerts, nextAlertId>>
        ELSE LET updated == crud_update(alert[1], data)
             IN  /\ alerts' = [alerts EXCEPT ![alert_id] = updated]
                 /\ resp' = Reply("update_budget", 200, user, Some(alert_id), data,
                                  BudgetAlertDTO(alert_id, updated))
                 /\ UNCHANGED <<executions, traces, token_usages, nextAlertId>>

\* a delete that reports success for an id that has no row
DeleteBudgetAlert_NoLookup(user, alert_id) ==
    LET alert == crud_get(alerts, alert_id)
    IN  IF alert # Null /\ NotOwner(alert[1], user)
        THEN /\ resp' = Reply("delete_budget", 403, user, Some(alert_id), Null, Null)
             /\ UNCHANGED <<executions, traces, token_usages, alerts, nextAlertId>>
        ELSE /\ alerts' = crud_delete(alerts, alert_id)
             /\ resp' = Reply("delete_budget", 200, user, Some(alert_id), Null,
                              [status |-> "deleted", id |-> alert_id])
             /\ UNCHANGED <<executions, traces, token_usages, nextAlertId>>

\* DELETE /analytics/budgets/{alert_id}
DeleteBudgetAlert(user, alert_id) ==
    LET alert == crud_get(alerts, alert_id)
    IN  IF alert = Null
        THEN /\ resp' = Reply("delete_budget", 404, user, Some(alert_id), Null, Null)
             /\ UNCHANGED <<executions, traces, token_usages, alerts, nextAlertId>>
        ELSE IF NotOwner(alert[1], user)
        THEN /\ resp' = Reply("delete_budget", 403, user, Some(alert_id), Null, Null)
             /\ UNCHANGED <<executions, traces, token_usages, alerts, nextAlertId>>
        ELSE /\ alerts' = crud_delete(alerts, alert_id)
             /\ resp' = Reply("delete_budget", 200, user, Some(alert_id), Null,
                              [status |-> "deleted", id |-> alert_id])
             /\ UNCHANGED <<executions, traces, token_usages, nextAlertId>>


-----------------------------------------------------------------------------
(* Execution details *)

\* One row of executiontraces; its id is its position in `traces`.
ExecutionTrace(execution_id, step_number, step_type) ==
    [execution_id |-> execution_id, step_number |-> step_number, step_type |-> step_type]

\* One row of tokenusages; its id is its position in `token_usages`.
TokenUsage(execution_id, component, step_number) ==
    [execution_id |-> execution_id, component |-> component, step_number |-> step_number]

\* The ids of the child rows a selectinload of the relationship brings in
ChildrenOf(table, execution_id) ==
    {i \in 1 .. Len(table) : table[i].execution_id = execution_id}

\* The orders in which a query without ORDER BY may return the rows `ids`
RowOrders(ids) ==
    {o \in [1 .. Cardinality(ids) -> ids] : \A i, j \in DOMAIN o : i # j => o[i] # o[j]}

\* AgentExecutionRepository.get_with_details
get_with_details(rows, execution_id) ==
    IF execution_id \in 1 .. Len(rows) THEN Some(rows[execution_id]) ELSE Null

\* the owner check dropped
AccessDenied_Never(execution, user) == FALSE

\* an execution without an owner denied as well
AccessDenied_Unowned(execution, user) == execution.user_id # Some(user)

\* execution.user_id and str(execution.user_id) != str(user.id)
AccessDenied(execution, user) ==
    execution.user_id # Null /\ execution.user_id[1] # user

ExecutionTraceDTO(id, t) ==
    [id |-> id, execution_id |-> t.execution_id, step_number |-> t.step_number,
     step_type |-> t.step_type]

TokenUsageDTO(id, tu) ==
    [id |-> id, execution_id |-> tu.execution_id, component |-> tu.component,
     step_number |-> tu.step_number]

AgentExecutionDTO(id, e, trace_dtos, usage_dtos) ==
    [id |-> id, agent_id |-> e.agent_id, agent_type |-> e.agent_type,
     agent_name |-> e.agent_name, user_id |-> e.user_id, model_name |-> e.model_name,
     started_at |-> e.started_at, status |-> e.status,
     input_tokens |-> e.input_tokens, output_tokens |-> e.output_tokens,
     total_tokens |-> e.total_tokens, execution_time_ms |-> e.execution_time_ms,
     cost_usd |-> e.cost_usd, traces |-> trace_dtos, token_usages |-> usage_dtos]

\* A trace step is written for a stored execution
CreateTrace(row) ==
    /\ row.execution_id \in 1 .. Len(executions)
    /\ traces' = Append(traces, row)
    /\ resp' = [op |-> "create_trace", id |-> Len(traces) + 1]
    /\ UNCHANGED <<executions, token_usages, alerts, nextAlertId>>

\* A token usage record is written for a stored execution
CreateTokenUsage(row) ==
    /\ row.execution_id \in 1 .. Len(executions)
    /\ token_usages' = Append(token_usages, row)
    /\ resp' = [op |-> "create_token_usage", id |-> Len(token_usages) + 1]
    /\ UNCHANGED <<executions, traces, alerts, nextAlertId>>

\* GET /analytics/executions/{execution_id}
GetExecutionDetails(user, execution_id) ==
    LET execution == get_with_details(executions, execution_id)
    IN  /\ IF execution = Null
           THEN resp' = [op |-> "execution_details", status |-> 404, user |-> user,
                         execution_id |-> execution_id, body |-> Null]
           ELSE IF AccessDenied(execution[1], user)
           THEN resp' = [op |-> "execution_details", status |-> 403, user |-> user,
                         execution_id |-> execution_id, body |-> Null]
           ELSE \E to \in RowOrders(ChildrenOf(traces, execution_id)),
                   uo \in RowOrders(ChildrenOf(token_usages, execution_id)) :
                    resp' = [op |-> "execution_details", status |-> 200, user |-> user,
                             execution_id |-> execution_id,
                             body |-> AgentExecutionDTO(
                                 execution_id, execution[1],
                                 [k \in DOMAIN to |-> ExecutionTraceDTO(to[k], traces[to[k]])],
                                 [k \in DOMAIN uo |->
                                     TokenUsageDTO(uo[k], token_usages[uo[k]])])]
        /\ UNCHANGED <<executions, traces, token_usages, alerts, nextAlertId>>


-----------------------------------------------------------------------------
(* BudgetAlertRepository.check_budget_exceeded *)

\* the rows whose cost the spend query sums for `alert`
SpendFilter(r, alert, user_id, start_date) ==
    /\ r.user_id = Some(user_id)
    /\ r.started_at >= start_date
    /\ (alert.scope = "agent" /\ alert.scope_id # Null) => r.agent_id = alert.scope_id

\* alert.threshold_usd * Decimal(str(alert.alert_at_percentage)) / 100
AlertThreshold(alert) == Rat(alert.threshold_usd * alert.alert_at_percentage, 100)

\* the comparison made strict
BudgetReached_Strict(current_spend, threshold) ==
    current_spend * threshold[2] > threshold[1]

\* current_spend >= threshold
BudgetReached(current_spend, threshold) ==
    current_spend * threshold[2] >= threshold[1]

CurrentSpend(rows, alert, user_id, now) ==
    LET start_date == now - alert.period_days * TicksPerDay
        counted == SelectSeq(rows, LAMBDA r : SpendFilter(r, alert, user_id, start_date))
    IN  OrZero(SqlSum(Column(counted, "cost_usd")))

\* the (alert, current_spend) pairs returned, an alert given by its id
check_budget_exceeded(table, rows, user_id, now) ==
    {[alert_id |-> i, current_spend |-> CurrentSpend(rows, table[i], user_id, now)] :
        i \in {j \in get_active_by_user(table, user_id) :
                  BudgetReached(CurrentSpend(rows, table[j], user_id, now),
                                AlertThreshold(table[j]))}}

\* budget_alert_repo.check_budget_exceeded(db, user_id) at clock reading `now`
CheckBudgetExceeded(user, now) ==
    /\ resp' = [op |-> "check_budget", user |-> user, now |-> now,
                body |-> check_budget_exceeded(alerts, executions, user, now)]
    /\ UNCHANGED <<executions, traces, token_usages, alerts, nextAlertId>>

-----------------------------------------------------------------------------
(* Cost breakdowns: get_overview's cost_by_model and get_cost_summary *)

\* the rows of a window that the overview and the cost summary aggregate
WindowRows(rows, user_id, start_date, end_date) ==
    SelectSeq(rows, LAMBDA r : OverviewFilter(r, user_id, start_date, end_date))

\* the values of column f among the rows: the groups of GROUP BY f
GroupsBy(rows, f) == {rows[i][f] : i \in 1 .. Len(rows)}

\* the rows of one group
GroupRows(rows, f, g) == SelectSeq(rows, LAMBDA r : r[f] = g)

\* ORDER BY f DESC over grouped rows: every order that f allows
OrderedDesc(groups, f) ==
    {o \in RowOrders(groups) : \A k \in 1 .. Len(o) - 1 : o[k][f] >= o[k + 1][f]}

\* a share reported as 100 when there is no cost at all
CostPercentage_NoCostIsFull(cost, total_cost) ==
    IF total_cost > 0 THEN Rat(cost * 100, total_cost) ELSE RatInt(100)

\* float(row.cost / total_cost * 100) if total_cost > 0 else 0
CostPercentage(cost, total_cost) ==
    IF total_cost > 0 THEN Rat(cost * 100, total_cost) ELSE RatZero

\* `x or "Unknown"` on a nullable name
OrUnknown(o) == IF o = Null THEN "Unknown" ELSE o[1]

\* the CostBreakdownDTO rows of get_overview, before ordering
cost_by_model(cur, total_cost) ==
    {LET grp == GroupRows(cur, "model_name", g)
         cost == OrZero(SqlSum(Column(grp, "cost_usd")))
     IN  [name |-> OrUnknown(g), category |-> "model", total_cost_usd |-> cost,
          percentage |-> CostPercentage(cost, total_cost),
          execution_count |-> Len(grp),
          total_tokens |-> OrZero(SqlSum(Column(grp, "total_tokens")))] :
        g \in GroupsBy(cur, "model_name") \ {Null}}

\* the by_model rows of get_cost_summary, before ordering
by_model(cur, total_cost) ==
    {LET grp == GroupRows(cur, "model_name", g)
         cost == OrZero(SqlSum(Column(grp, "cost_usd")))
     IN  [model |-> OrUnknown(g), cost_usd |-> cost, execution_count |-> Len(grp),
          percentage |-> CostPercentage(cost, total_cost)] :
        g \in GroupsBy(cur, "model_name")}

\* the by_agent rows of get_cost_summary, before ordering
by_agent(cur, total_cost) ==
    {LET grp == SelectSeq(cur, LAMBDA r : r.agent_name = g[1] /\ r.agent_id = g[2])
         cost == OrZero(SqlSum(Column(grp, "cost_usd")))
     IN  [agent_name |-> OrUnknown(g[1]), agent_id |-> g[2], cost_usd |-> cost,
          execution_count |-> Len(grp),
          percentage |-> CostPercentage(cost, total_cost)] :
        g \in {<<cur[i].agent_name, cur[i].agent_id>> : i \in 1 .. Len(cur)}}

\* the results get_cost_summary may return, one for each order of equal costs
get_cost_summary(rows, user_id, start_date, end_date) ==
    LET cur == WindowRows(rows, user_id, start_date, end_date)
        total_cost == OrZero(SqlSum(Column(cur, "cost_usd")))
    IN  {[total_cost_usd |-> total_cost,
          period_days |-> (end_date - start_date) \div TicksPerDay,
          by_model |-> bm, by_agent |-> ba] :
            bm \in OrderedDesc(by_model(cur, total_cost), "cost_usd"),
            ba \in OrderedDesc(by_agent(cur, total_cost), "cost_usd")}

\* GET /analytics/costs/summary with an explicit window
GetCostSummary(user, start_date, end_date) ==
    /\ \E body \in get_cost_summary(executions, Some(user), start_date, end_date) :
           resp' = [op |-> "cost_summary", status |-> 200, user |-> user,
                    start_date |-> start_date, end_date |-> end_date, body |-> body]
    /\ UNCHANGED <<executions, traces, token_usages, alerts, nextAlertId>>

\* GET /analytics/overview with an explicit window
TopAgentsLimit == 10

\* .limit(n) on an ordered result
Limit(ordered, n) == SubSeq(ordered, 1, IF Len(ordered) < n THEN Len(ordered) ELSE n)

\* the TopAgentDTO rows of get_overview, before ordering and limit: one for
\* each (agent_name, agent_id, agent_type) of the rows whose agent_name is set
top_agents(cur) ==
    {LET grp == SelectSeq(cur, LAMBDA r :
                    r.agent_name = g[1] /\ r.agent_id = g[2] /\ r.agent_type = g[3])
         success_count == OrZero(SqlSum(StatusCase(grp, "success")))
     IN  [agent_name |-> OrUnknown(g[1]), agent_id |-> g[2], agent_type |-> g[3],
          execution_count |-> Len(grp),
          success_count |-> success_count,
          failure_count |-> OrZero(SqlSum(StatusCase(grp, "failure"))),
          success_rate |-> SuccessRate(success_count, Len(grp)),
          avg_execution_time_ms |-> AvgOrZero(SqlAvg(Column(grp, "execution_time_ms"))),
          total_tokens |-> OrZero(SqlSum(Column(grp, "total_tokens"))),
          total_cost_usd |-> OrZero(SqlSum(Column(grp, "cost_usd")))] :
        g \in {<<cur[i].agent_name, cur[i].agent_id, cur[i].agent_type>> :
                  i \in {j \in 1 .. Len(cur) : cur[j].agent_name # Null}}}

\* count(distinct agent_id) over the rows whose agent_id is set
active_agents_count(cur) == Cardinality(GroupsBy(cur, "agent_id") \ {Null})

\* the AnalyticsOverviewDTOs get_overview may return, one for each order of
\* equal costs and equal counts
overview_results(rows, user_id, start_date, end_date) ==
    LET overview == get_overview(rows, user_id, start_date, end_date)
        cur == WindowRows(rows, user_id, start_date, end_date)
    IN  {overview @@ [cost_by_model |-> cbm,
                      top_agents |-> Limit(top, TopAgentsLimit),
                      active_agents_count |-> active_agents_count(cur)] :
            cbm \in OrderedDesc(cost_by_model(cur, overview.total_cost_usd),
                                "total_cost_usd"),
            top \in OrderedDesc(top_agents(cur), "execution_count")}

GetAnalyticsOverview(user, start_date, end_date) ==
    /\ \E body \in overview_results(executions, Some(user), start_date, end_date) :
           resp' = [op |-> "overview", status |-> 200, user |-> user,
                    start_date |-> start_date, end_date |-> end_date, body |-> body]
    /\ UNCHANGED <<executions, traces, token_usages, alerts, nextAlertId>>

-----------------------------------------------------------------------------
(* AgentExecutionRepository.get_agent_stats and GET /analytics/agents/{id}/stats *)

\* MIN is NULL over no rows
SqlMin(col) ==
    IF col = <<>> THEN Null
    ELSE Some(CHOOSE v \in {col[k] : k \in 1 .. Len(col)} :
                  \A k \in 1 .. Len(col) : v <= col[k])

\* MAX is NULL over no rows
SqlMax(col) ==
    IF col = <<>> THEN Null
    ELSE Some(CHOOSE v \in {col[k] : k \in 1 .. Len(col)} :
                  \A k \in 1 .. Len(col) : v >= col[k])

AgentStatsFilter(r, agent_id, user_id, start_date, end_date) ==
    /\ r.agent_id = Some(agent_id)
    /\ r.started_at >= start_date
    /\ r.started_at <= end_date
    /\ UserFilter(r, user_id)

\* the AgentStatsDTO built from one row of the grouped query
AgentStatsDTO(agent_id, agent_name, agent_type, grp) ==
    LET total == Len(grp)
        successful == OrZero(SqlSum(StatusCase(grp, "success")))
        total_cost == OrZero(SqlSum(Column(grp, "cost_usd")))
    IN  [agent_id |-> agent_id,
         agent_name |-> OrUnknown(agent_name),
         agent_type |-> agent_type,
         total_executions |-> total,
         successful_executions |-> successful,
         failed_executions |-> OrZero(SqlSum(StatusCase(grp, "failure"))),
         timeout_executions |-> OrZero(SqlSum(StatusCase(grp, "timeout"))),
         success_rate |-> SuccessRate(successful, total),
         avg_execution_time_ms |-> AvgOrZero(SqlAvg(Column(grp, "execution_time_ms"))),
         min_execution_time_ms |-> OrZero(SqlMin(Column(grp, "execution_time_ms"))),
         max_execution_time_ms |-> OrZero(SqlMax(Column(grp, "execution_time_ms"))),
         avg_input_tokens |-> AvgOrZero(SqlAvg(Column(grp, "input_tokens"))),
         avg_output_tokens |-> AvgOrZero(SqlAvg(Column(grp, "output_tokens"))),
         total_tokens |-> OrZero(SqlSum(Column(grp, "total_tokens"))),
         total_cost_usd |-> total_cost,
         avg_cost_per_execution_usd |->
             IF total > 0 THEN Rat(total_cost, total) ELSE RatZero,
         last_executed_at |-> SqlMax(Column(grp, "started_at")),
         first_executed_at |-> SqlMin(Column(grp, "started_at"))]

\* The values get_agent_stats may return: None when no row matches, otherwise
\* the DTO of the row of the grouped query that result.first() meets first,
\* which may be the row of any (agent_name, agent_type) group.
get_agent_stats(rows, agent_id, user_id, start_date, end_date) ==
    LET cur == SelectSeq(rows, LAMBDA r :
                   AgentStatsFilter(r, agent_id, user_id, start_date, end_date))
        groups == {<<cur[i].agent_name, cur[i].agent_type>> : i \in 1 .. Len(cur)}
    IN  IF groups = {} THEN {Null}
        ELSE {Some(AgentStatsDTO(agent_id, g[1], g[2],
                       SelectSeq(cur, LAMBDA r :
                           r.agent_name = g[1] /\ r.agent_type = g[2]))) :
                 g \in groups}

\* GET /analytics/agents/{agent_id}/stats with an explicit window
GetAgentStats(user, agent_id, start_date, end_date) ==
    /\ \E stats \in get_agent_stats(executions, agent_id, Some(user), start_date, end_date) :
           IF stats = Null
           THEN resp' = [op |-> "agent_stats", status |-> 404, user |-> user,
                         agent_id |-> agent_id, start_date |-> start_date,
                         end_date |-> end_date, body |-> Null]
           ELSE resp' = [op |-> "agent_stats", status |-> 200, user |-> user,
                         agent_id |-> agent_id, start_date |-> start_date,
                         end_date |-> end_date, body |-> stats[1]]
    /\ UNCHANGED <<executions, traces, token_usages, alerts, nextAlertId>>

-----------------------------------------------------------------------------
(* get_cost_forecast and GET /analytics/comparison/models *)

\* the CostForecastDTO at clock reading `now`
\* the trend with a change of exactly 10 percent counted as a move
CostTrend_Inclusive(prev_cost, change) ==
    IF prev_cost > 0 /\ change[1] >= 10 * change[2] THEN "increasing"
    ELSE IF prev_cost > 0 /\ change[1] <= (0 - 10) * change[2] THEN "decreasing"
    ELSE "stable"

\* if prev_cost > 0: change > 10, change < -10, else stable; else stable
CostTrend(prev_cost, change) ==
    IF prev_cost > 0 /\ change[1] > 10 * change[2] THEN "increasing"
    ELSE IF prev_cost > 0 /\ change[1] < (0 - 10) * change[2] THEN "decreasing"
    ELSE "stable"

get_cost_forecast(rows, user_id, now) ==
    LET last_7_days == now - 7 * TicksPerDay
        prev_7_days == last_7_days - 7 * TicksPerDay
        current == SelectSeq(rows, LAMBDA r :
                       r.started_at >= last_7_days /\ UserFilter(r, user_id))
        prev == SelectSeq(rows, LAMBDA r :
                    /\ r.started_at >= prev_7_days
                    /\ r.started_at < last_7_days
                    /\ UserFilter(r, user_id))
        current_cost == OrZero(SqlSum(Column(current, "cost_usd")))
        prev_cost == OrZero(SqlSum(Column(prev, "cost_usd")))
        daily_avg == Rat(current_cost, 7)
        change == IF prev_cost > 0
                  THEN Rat((current_cost - prev_cost) * 100, prev_cost)
                  ELSE RatZero
        trend == CostTrend(prev_cost, change)
    IN  [current_period_cost_usd |-> current_cost,
         projected_monthly_cost_usd |-> RatMulInt(daily_avg, 30),
         projected_weekly_cost_usd |-> current_cost,
         daily_average_cost_usd |-> daily_avg,
         cost_trend |-> trend,
         trend_percentage |-> change]

\* GET /analytics/costs/forecast at clock reading `now`
GetCostForecast(user, now) ==
    /\ resp' = [op |-> "cost_forecast", status |-> 200, user |-> user, now |-> now,
                body |-> get_cost_forecast(executions, Some(user), now)]
    /\ UNCHANGED <<executions, traces, token_usages, alerts, nextAlertId>>

\* str(row.total_cost or 0): the text "0" for no cost, the decimal's text otherwise
StrCost(total_cost) == IF total_cost = 0 THEN <<"0">> ELSE <<"decimal", total_cost>>

\* the rows of the model comparison, before ordering
model_rows(cur) ==
    {LET grp == GroupRows(cur, "model_name", g)
         success_count == OrZero(SqlSum(StatusCase(grp, "success")))
     IN  [model_name |-> g[1],
          execution_count |-> Len(grp),
          success_count |-> success_count,
          success_rate |-> SuccessRate(success_count, Len(grp)),
          avg_execution_time_ms |-> AvgOrZero(SqlAvg(Column(grp, "execution_time_ms"))),
          avg_tokens |-> AvgOrZero(SqlAvg(Column(grp, "total_tokens"))),
          total_tokens |-> OrZero(SqlSum(Column(grp, "total_tokens"))),
          total_cost_usd |-> StrCost(OrZero(SqlSum(Column(grp, "cost_usd"))))] :
        g \in GroupsBy(cur, "model_name") \ {Null}}

\* the comparisons the route may return, one for each order of equal counts
compare_models(rows, user_id, start_date, end_date) ==
    OrderedDesc(model_rows(WindowRows(rows, user_id, start_date, end_date)),
                "execution_count")

\* GET /analytics/comparison/models with an explicit window
CompareModels(user, start_date, end_date) ==
    /\ \E body \in compare_models(executions, Some(user), start_date, end_date) :
           resp' = [op |-> "compare_models", status |-> 200, user |-> user,
                    start_date |-> start_date, end_date |-> end_date, body |-> body]
    /\ UNCHANGED <<executions, traces, token_usages, alerts, nextAlertId>>

-----------------------------------------------------------------------------
(* AgentExecutionRepository.list_paginated and GET /analytics/executions *)

\* parse_period: the window a period name stands for at clock reading `now`
parse_period(period, now) ==
    IF period = "7d" THEN <<now - 7 * TicksPerDay, now>>
    ELSE IF period = "30d" THEN <<now - 30 * TicksPerDay, now>>
    ELSE IF period = "90d" THEN <<now - 90 * TicksPerDay, now>>
    ELSE <<now - TicksPerDay, now>>

\* `if start_date and end_date: pass / else: parse_period(period)` of the routes
RequestWindow(start_date, end_date, period, now) ==
    IF start_date # Null /\ end_date # Null
    THEN <<start_date[1], end_date[1]>>
    ELSE parse_period(period, now)

\* the filters list_paginated builds from the arguments that are set
ListFilter(r, q) ==
    /\ q.user_id # Null => r.user_id = q.user_id
    /\ q.agent_id # Null => r.agent_id = q.agent_id
    /\ q.agent_type # Null => r.agent_type = q.agent_type
    /\ q.model_name # Null => r.model_name = q.model_name
    /\ q.status # Null => r.status = q.status[1]
    /\ q.start_date # Null => r.started_at >= q.start_date[1]
    /\ q.end_date # Null => r.started_at <= q.end_date[1]

\* the ids of the rows the filters select, in insertion order
MatchingIds(rows, q) ==
    SelectSeq([i \in 1 .. Len(rows) |-> i], LAMBDA i : ListFilter(rows[i], q))

SortableColumns ==
    {"started_at", "execution_time_ms", "input_tokens", "output_tokens",
     "total_tokens", "cost_usd"}

\* getattr(self.model, sort_by, self.model.started_at)
SortColumn(sort_by) == IF sort_by \in SortableColumns THEN sort_by ELSE "started_at"

\* reversal of a sequence
Reverse(seq) == [k \in 1 .. Len(seq) |-> seq[Len(seq) + 1 - k]]

\* ORDER BY the sort column; `tie` ranks the rows that the column leaves equal
OrderBy(rows, ids, sort_by, sort_order, tie) ==
    LET col == SortColumn(sort_by)
    IN  IF sort_order = "desc"
        THEN SortSeq(Reverse(ids),
                     LAMBDA a, b : \/ rows[a][col] > rows[b][col]
                                   \/ rows[a][col] = rows[b][col] /\ tie[a] < tie[b])
        ELSE SortSeq(ids,
                     LAMBDA a, b : \/ rows[a][col] < rows[b][col]
                                   \/ rows[a][col] = rows[b][col] /\ tie[a] < tie[b])

\* The ways the database may rank rows of equal sort key: every ranking of the
\* rows, or the one ranking that matters when no two selected rows are equal.
TieBreaks(rows, ids, sort_by) ==
    LET col == SortColumn(sort_by)
        n == Len(rows)
    IN  IF Cardinality({rows[ids[k]][col] : k \in 1 .. Len(ids)}) = Len(ids)
        THEN {[i \in 1 .. n |-> i]}
        ELSE {t \in [1 .. n -> 1 .. n] : \A i, j \in 1 .. n : i # j => t[i] # t[j]}

\* the offset of the first row of a page
PageOffset_First(page, page_size) == 0

PageOffset(page, page_size) == (page - 1) * page_size

\* the page count rounded down
TotalPages_Floor(total, page_size) == total \div page_size

TotalPages(total, page_size) == (total + page_size - 1) \div page_size

AgentExecutionSummaryDTO(id, e) ==
    [id |-> id, agent_name |-> e.agent_name, agent_type |-> e.agent_type,
     model_name |-> e.model_name, status |-> e.status,
     execution_time_ms |-> e.execution_time_ms, total_tokens |-> e.total_tokens,
     cost_usd |-> e.cost_usd, started_at |-> e.started_at]

\* the PaginatedExecutionsDTO under one ranking of equal rows
list_paginated(rows, q, tie) ==
    LET ids == MatchingIds(rows, q)
        total == Len(ids)
        ordered == OrderBy(rows, ids, q.sort_by, q.sort_order, tie)
        offset == PageOffset(q.page, q.page_size)
        last == IF offset + q.page_size < total THEN offset + q.page_size ELSE total
        items == SubSeq(ordered, offset + 1, last)
    IN  [items |-> [k \in 1 .. Len(items) |->
                       AgentExecutionSummaryDTO(items[k], rows[items[k]])],
         total |-> total,
         page |-> q.page,
         page_size |-> q.page_size,
         total_pages |-> TotalPages(total, q.page_size)]

\* the pages list_paginated may return, one for each order of equal sort keys
list_results(rows, q) ==
    {list_paginated(rows, q, tie) :
        tie \in TieBreaks(rows, MatchingIds(rows, q), q.sort_by)}

\* Query(ge=1) on page, Query(ge=1, le=100) on page_size
ValidPaging(page, page_size) == page >= 1 /\ page_size >= 1 /\ page_size <= 100

\* the arguments list_executions passes to list_paginated
ListQuery(user, req, now) ==
    LET w == RequestWindow(req.start_date, req.end_date, req.period, now)
    IN  [user_id |-> Some(user), agent_id |-> req.agent_id,
         agent_type |-> req.agent_type, model_name |-> req.model_name,
         status |-> req.status, start_date |-> Some(w[1]), end_date |-> Some(w[2]),
         page |-> req.page, page_size |-> req.page_size,
         sort_by |-> req.sort_by, sort_order |-> req.sort_order]

\* GET /analytics/executions at clock reading `now`
ListExecutions(user, req, now) ==
    /\ IF ~ValidPaging(req.page, req.page_size)
       THEN resp' = [op |-> "list_executions", status |-> 422, user |-> user,
                     req |-> req, now |-> now, body |-> Null]
       ELSE \E body \in list_results(executions, ListQuery(user, req, now)) :
                resp' = [op |-> "list_executions", status |-> 200, user |-> user,
                         req |-> req, now |-> now, body |-> body]
    /\ UNCHANGED <<executions, traces, token_usages, alerts, nextAlertId>>

-----------------------------------------------------------------------------
(* GET /analytics/export *)

\* page_size=10000 of the export's one call of list_paginated
ExportPageSize == 10000

\* str(item.cost_usd)
StrDecimal(d) == <<"decimal", d>>

\* item.started_at.isoformat()
IsoFormat(t) == <<"iso", t>>

\* one exported execution: a JSON object or a CSV row
ExportRecord(item) ==
    [id |-> item.id, agent_name |-> item.agent_name, agent_type |-> item.agent_type,
     model_name |-> item.model_name, status |-> item.status,
     execution_time_ms |-> item.execution_time_ms, total_tokens |-> item.total_tokens,
     cost_usd |-> StrDecimal(item.cost_usd), started_at |-> IsoFormat(item.started_at)]

\* the records written for the items of the one page the export fetches
ExportRecords(items) == [k \in 1 .. Len(items) |-> ExportRecord(items[k])]

\* the arguments export_analytics_data passes to list_paginated
ExportQuery(user, start_date, end_date) ==
    [user_id |-> Some(user), agent_id |-> Null, agent_type |-> Null,
     model_name |-> Null, status |-> Null,
     start_date |-> Some(start_date), end_date |-> Some(end_date),
     page |-> 1, page_size |-> ExportPageSize,
     sort_by |-> "started_at", sort_order |-> "desc"]

\* GET /analytics/export with an explicit window; format is "csv" or JSON
\* the CSV rows or the JSON document written for the fetched page
export_body(paginated, records, format, start_date, end_date) ==
    IF format = "csv"
    THEN [rows |-> records]
    ELSE [period |-> [start |-> IsoFormat(start_date), end |-> IsoFormat(end_date)],
          total_records |-> paginated.total,
          executions |-> records]

\* the bodies the export may return, one for each order of equal start times
export_results(rows, user, format, start_date, end_date) ==
    UNION {{export_body(paginated, records, format, start_date, end_date) :
                records \in {ExportRecords(paginated.items)}} :
              paginated \in list_results(rows, ExportQuery(user, start_date, end_date))}

ExportAnalyticsData(user, format, start_date, end_date) ==
    /\ \E body \in export_results(executions, user, format, start_date, end_date) :
           resp' = [op |-> "export", status |-> 200, user |-> user,
                    format |-> format, start_date |-> start_date,
                    end_date |-> end_date, body |-> body]
    /\ UNCHANGED <<executions, traces, token_usages, alerts, nextAlertId>>

\* seed_executions: `count` executions of one user are inserted, each started
\* one tick after the row stored before it
SeedExecutions(user, count) ==
    /\ executions' = executions \o
           [k \in 1 .. count |->
               AgentExecution(Some(user), Null, Null, Null, Null, "success",
                              Len(executions) + k, 0, 0, 0, 0)]
    /\ resp' = [op |-> "seed_executions", count |-> count]
    /\ UNCHANGED <<traces, token_usages, alerts, nextAlertId>>

\* seed_executions with execution times: `count` executions of one user, the
\* k-th stored row taking the time (k * stride) modulo MaxTimeMs and started at
\* tick 0 or 1 by turns
SeedTimedExecutions(user, count, stride) ==
    /\ executions' = executions \o
           [k \in 1 .. count |->
               AgentExecution(Some(user), Null, Null, Null, Null, "success",
                              (Len(executions) + k) % 2,
                              ((Len(executions) + k) * stride) % MaxTimeMs, 0, 0, 0)]
    /\ resp' = [op |-> "seed_executions", count |-> count]
    /\ UNCHANGED <<traces, token_usages, alerts, nextAlertId>>

-----------------------------------------------------------------------------
(* get_overview query by query: each of its six queries reads the store as *)
(* it is when the query runs, and another session may commit an insert     *)
(* between two of them. resp holds the request in flight.                  *)

MetricFields ==
    {"total_executions", "successful_executions", "failed_executions",
     "success_rate", "avg_execution_time_ms", "total_input_tokens",
     "total_output_tokens", "total_tokens", "total_cost_usd"}

PercentileFields ==
    {"p50_execution_time_ms", "p95_execution_time_ms", "p99_execution_time_ms"}

\* the fields `fields` of the overview computed from the rows as they are
FieldsNow(fields, user, start_date, end_date) ==
    [f \in fields |-> get_overview(executions, Some(user), start_date, end_date)[f]]

Running(pc) == resp.op = "overview_running" /\ resp.pc = pc

\* the next query of the request in flight has run and added `fields`
Proceed(fields) ==
    /\ resp' = [resp EXCEPT !.pc = @ + 1, !.body = @ @@ fields]
    /\ UNCHANGED <<executions, traces, token_usages, alerts, nextAlertId>>

\* metrics_query
OverviewMetrics(user, start_date, end_date) ==
    /\ resp.op # "overview_running"
    /\ resp' = [op |-> "overview_running", pc |-> 2, user |-> user,
                start_date |-> start_date, end_date |-> end_date,
                body |-> FieldsNow(MetricFields, user, start_date, end_date)]
    /\ UNCHANGED <<executions, traces, token_usages, alerts, nextAlertId>>

\* time_query
OverviewTimes ==
    /\ Running(2)
    /\ Proceed(FieldsNow(PercentileFields, resp.user, resp.start_date, resp.end_date))

\* top_agents_query
OverviewTopAgents ==
    /\ Running(3)
    /\ LET cur == WindowRows(executions, Some(resp.user), resp.start_date, resp.end_date)
       IN  \E top \in OrderedDesc(top_agents(cur), "execution_count") :
               Proceed([top_agents |-> Limit(top, TopAgentsLimit)])

\* model_cost_query: the shares are taken of the total the metrics query found
OverviewCostByModel ==
    /\ Running(4)
    /\ LET cur == WindowRows(executions, Some(resp.user), resp.start_date, resp.end_date)
       IN  \E cbm \in OrderedDesc(cost_by_model(cur, resp.body.total_cost_usd),
                                  "total_cost_usd") :
               Proceed([cost_by_model |-> cbm])

\* prev_query: the changes are taken of the values the metrics query found
OverviewPrevious ==
    /\ Running(5)
    /\ LET period_length == resp.end_date - resp.start_date
           prev == prev_query(executions, Some(resp.user),
                              resp.start_date - period_length, resp.start_date)
           b == resp.body
       IN  Proceed([estimated_monthly_cost_usd |->
                        MonthlyCost(b.total_cost_usd, TimedeltaDays(period_length)),
                    executions_change_percent |->
                        calc_change(RatInt(b.total_executions), RatInt(prev.prev_total)),
                    execution_time_change_percent |->
                        calc_change(b.avg_execution_time_ms, prev.prev_avg_time),
                    success_rate_change_percent |->
                        calc_change(b.success_rate, prev.prev_success_rate),
                    cost_change_percent |->
                        calc_change(RatInt(b.total_cost_usd), RatInt(prev.prev_cost))])

\* active_agents_query, and the AnalyticsOverviewDTO is returned
OverviewActiveAgents ==
    /\ Running(6)
    /\ LET cur == WindowRows(executions, Some(resp.user), resp.start_date, resp.end_date)
       IN  resp' = [op |-> "overview", status |-> 200, user |-> resp.user,
                    start_date |-> resp.start_date, end_date |-> resp.end_date,
                    body |-> resp.body @@
                             [active_agents_count |-> active_agents_count(cur)]]
    /\ UNCHANGED <<executions, traces, token_usages, alerts, nextAlertId>>

\* another session commits an insert; the request in flight goes on
CommitExecution(row) ==
    /\ executions' = Append(executions, row)
    /\ UNCHANGED <<traces, token_usages, alerts, nextAlertId, resp>>

-----------------------------------------------------------------------------
(* Creating and updating execution records *)

\* AgentExecutionCreate: status defaults to pending
AgentExecutionCreate(data) ==
    [user_id |-> data.user_id,
     status |-> IF data.status = Null THEN "pending" ELSE data.status[1]]

\* AgentExecutionUpdate: every field is optional, none is validated
AgentExecutionUpdate(data) ==
    [status |-> data.status, execution_time_ms |-> data.execution_time_ms,
     cost_usd |-> data.cost_usd]

\* AgentExecutionRepository.create, inherited from CRUDBase: a row with the
\* fields of the request and the column defaults, started at the clock reading
CreateExecutionRecord(data, now) ==
    LET obj_in == AgentExecutionCreate(data)
    IN  /\ executions' = Append(executions,
               AgentExecution(obj_in.user_id, Null, Null, Null, Null, obj_in.status,
                              now, 0, 0, 0, 0))
        /\ resp' = [op |-> "create_record", id |-> Len(executions) + 1]
        /\ UNCHANGED <<traces, token_usages, alerts, nextAlertId>>

\* AgentExecutionRepository.update, inherited from CRUDBase
UpdateExecutionRecord(id, data) ==
    /\ id \in 1 .. Len(executions)
    /\ executions' = [executions EXCEPT
                         ![id] = crud_update(@, AgentExecutionUpdate(data))]
    /\ resp' = [op |-> "update_record", id |-> id]
    /\ UNCHANGED <<traces, token_usages, alerts, nextAlertId>>

Init ==
    /\ executions = <<>>
    /\ traces = <<>>
    /\ token_usages = <<>>
    /\ alerts = <<>>
    /\ nextAlertId = 1
    /\ resp = NoResp

-----------------------------------------------------------------------------
(* Spec: executions of every status, owner and start time, and batches of  *)
(* finished executions of one user, read through the overview.             *)

\* Finished executions of either user at every start time, and executions of
\* user u1 in each of the other statuses.
StatusRows ==
    {AgentExecution(Some(u), Null, Null, Null, Null, s, t, 0, 0, 0, 0) :
        u \in Users, s \in {"success", "failure"}, t \in Times}
    \cup
    {AgentExecution(Some("u1"), Null, Null, Null, Null, s, 1, 0, 0, 0, 0) :
        s \in ExecutionStatus}

BatchRows ==
    {AgentExecution(Some("u1"), Null, Null, Null, Null, s, 1, 0, 0, 0, 0) :
        s \in {"success", "failure"}}

IsBatch(rows) == \A i \in 1 .. Len(rows) : rows[i] \in BatchRows

Windows == {w \in Times \X Times : w[1] < w[2]}

Next ==
    \/ \E row \in StatusRows :
           Len(executions) < MaxExec /\ CreateExecution(row)
    \/ \E row \in BatchRows :
           Len(executions) < MaxBatch /\ IsBatch(executions) /\ CreateExecution(row)
    \/ \E user \in Users, w \in Windows : GetAnalyticsOverview(user, w[1], w[2])

Spec == Init /\ [][Next]_vars

-----------------------------------------------------------------------------
(* SpecChange: executions that differ in outcome, duration and cost, spread *)
(* over consecutive periods, read through the overview.                    *)

\* (status, execution_time_ms, cost_usd)
Profiles == {<<"success", 4, 3>>, <<"failure", 0, 5>>, <<"success", 2, 0>>}

ChangeRows ==
    {AgentExecution(Some("u1"), Null, Null, Null, Null, p[1], t, p[2], 0, 0, p[3]) :
        p \in Profiles, t \in Times}
    \cup
    {AgentExecution(Some("u2"), Null, Null, Null, Null, "success", t, 4, 0, 0, 3) :
        t \in Times}

NextChange ==
    \/ \E row \in ChangeRows :
           Len(executions) < MaxExec /\ CreateExecution(row)
    \/ \E user \in Users, w \in Windows : GetAnalyticsOverview(user, w[1], w[2])

SpecChange == Init /\ [][NextChange]_vars

-----------------------------------------------------------------------------
(* SpecAlerts: two users create, update, delete and list budget alerts.    *)

CreateRequest(scope, scope_id, threshold_usd, period_days, alert_type, percentage) ==
    [scope |-> scope, scope_id |-> scope_id, threshold_usd |-> threshold_usd,
     period_days |-> period_days, alert_type |-> alert_type,
     alert_at_percentage |-> percentage]

UpdateRequest(threshold_usd, period_days, alert_type, percentage, is_active) ==
    [threshold_usd |-> threshold_usd, period_days |-> period_days,
     alert_type |-> alert_type, alert_at_percentage |-> percentage,
     webhook_url |-> Null, email_notification |-> Null, is_active |-> is_active]

\* {"threshold_usd": 100.00} with every default
DefaultCreate == CreateRequest(Null, Null, 10000, Null, Null, Null)

OwnershipUpdates ==
    {UpdateRequest(Some(7500), Null, Null, Null, Null),
     UpdateRequest(Null, Null, Null, Null, Some(FALSE)),
     UpdateRequest(Null, Null, Null, Null, Some(TRUE))}

AlertIds == 1 .. MaxAlerts

NextAlerts ==
    \/ \E user \in Users :
           nextAlertId <= MaxAlerts /\ CreateBudgetAlert(user, DefaultCreate)
    \/ \E user \in Users, id \in AlertIds, data \in OwnershipUpdates :
           UpdateBudgetAlert(user, id, data)
    \/ \E user \in Users, id \in AlertIds : DeleteBudgetAlert(user, id)
    \/ \E user \in Users : ListBudgetAlerts(user)

SpecAlerts == Init /\ [][NextAlerts]_vars

-----------------------------------------------------------------------------
(* SpecAlertFields: one user creates alerts with default and with explicit *)
(* field values, in and out of the percentage range, and patches them.     *)

\* {"threshold_usd": 100.00, "period_days": 30, "alert_at_percentage": 80}
RoundTripCreate == CreateRequest(Null, Null, 10000, Some(30), Null, Some(80))

ExplicitCreate ==
    CreateRequest(Some("agent"), Some("a1"), 5000, Some(7), Some("hard_stop"), Some(100))

FieldCreates ==
    {RoundTripCreate, ExplicitCreate,
     CreateRequest(Null, Null, 10000, Null, Null, Some(150)),
     CreateRequest(Null, Null, 10000, Null, Null, Some(0))}

FieldUpdates ==
    {UpdateRequest(Some(7500), Null, Null, Null, Null),
     UpdateRequest(Null, Null, Null, Null, Some(FALSE)),
     UpdateRequest(Some(7500), Null, Null, Null, Some(FALSE)),
     UpdateRequest(Null, Null, Null, Some(50), Null),
     UpdateRequest(Null, Null, Null, Some(150), Null),
     UpdateRequest(Null, Null, Null, Some(0), Null)}

NextAlertFields ==
    \/ \E data \in FieldCreates :
           nextAlertId <= MaxAlerts /\ CreateBudgetAlert("u1", data)
    \/ \E id \in AlertIds, data \in FieldUpdates : UpdateBudgetAlert("u1", id, data)
    \/ \E id \in AlertIds : DeleteBudgetAlert("u1", id)
    \/ ListBudgetAlerts("u1")

SpecAlertFields == Init /\ [][NextAlertFields]_vars

-----------------------------------------------------------------------------
(* SpecAccess: alerts and executions of two users; any user patches or     *)
(* deletes any alert id and reads any execution id.                        *)

\* the update of test_update_budget_alert
TestUpdate == UpdateRequest(Some(7500), Null, Null, Null, Some(FALSE))

AccessRows ==
    {AgentExecution(Some(u), Null, Null, Null, Null, "success", 1, 0, 0, 0, 0) : u \in Users}

ExecutionIds == 1 .. MaxExec

NextAccess ==
    \/ \E user \in Users :
           nextAlertId <= MaxAlerts /\ CreateBudgetAlert(user, DefaultCreate)
    \/ \E user \in Users, id \in AlertIds : UpdateBudgetAlert(user, id, TestUpdate)
    \/ \E user \in Users, id \in AlertIds : DeleteBudgetAlert(user, id)
    \/ \E row \in AccessRows : Len(executions) < MaxExec /\ CreateExecution(row)
    \/ \E user \in Users, id \in ExecutionIds : GetExecutionDetails(user, id)

SpecAccess == Init /\ [][NextAccess]_vars

-----------------------------------------------------------------------------
(* SpecDetails: executions owned by either user or by nobody, with trace   *)
(* steps and token usages, read by either user.                            *)

DetailRows ==
    {AgentExecution(o, Null, Null, Null, Null, "success", 1, 4, 1, 2, 3) :
        o \in {Some("u1"), Some("u2"), Null}}

StepNumbers == {1, 2}

NextDetails ==
    \/ \E row \in DetailRows : Len(executions) < MaxExec /\ CreateExecution(row)
    \/ \E n \in StepNumbers :
           Len(traces) < MaxTraces /\ CreateTrace(ExecutionTrace(1, n, "thought"))
    \/ Len(token_usages) < MaxUsages
           /\ CreateTokenUsage(TokenUsage(1, "master_agent", Some(1)))
    \/ \E user \in Users, id \in ExecutionIds : GetExecutionDetails(user, id)

SpecDetails == Init /\ [][NextDetails]_vars

-----------------------------------------------------------------------------
(* SpecBudget: user u1 holds alerts at 80 percent of 100.00 over one day,  *)
(* on all spend and on the spend of agent a2; executions of two agents and *)
(* users cost 0.01 or 79.99; the budget check runs at any clock reading.   *)

BudgetCreates ==
    {CreateRequest(Null, Null, 10000, Some(1), Null, Some(80)),
     CreateRequest(Some("agent"), Some("a2"), 10000, Some(1), Null, Some(80))}

BudgetRows ==
    {AgentExecution(Some("u1"), Some("a1"), Null, Null, Null, "success", t, 0, 0, 0, 1) :
        t \in Times}
    \cup
    {AgentExecution(Some("u1"), Some("a2"), Null, Null, Null, "success", t, 0, 0, 0, 7999) :
        t \in Times}
    \cup
    {AgentExecution(Some("u2"), Some("a2"), Null, Null, Null, "success", 1, 0, 0, 0, 7999)}

Clock == 0 .. MaxTime + 1

NextBudget ==
    \/ \E data \in BudgetCreates :
           nextAlertId <= MaxAlerts /\ CreateBudgetAlert("u1", data)
    \/ \E row \in BudgetRows : Len(executions) < MaxExec /\ CreateExecution(row)
    \/ \E user \in Users, now \in Clock : CheckBudgetExceeded(user, now)

SpecBudget == Init /\ [][NextBudget]_vars

-----------------------------------------------------------------------------
(* SpecList: executions of two users, some started at the same time; either *)
(* user lists them page by page, in either order, with or without a status *)
(* filter, with valid and invalid paging parameters.                       *)

ListRequest(agent_id, agent_type, model_name, status, start_date, end_date, period, page, page_size, sort_by, sort_order) ==
    [agent_id |-> agent_id, agent_type |-> agent_type, model_name |-> model_name,
     status |-> status, start_date |-> start_date, end_date |-> end_date,
     period |-> period, page |-> page, page_size |-> page_size,
     sort_by |-> sort_by, sort_order |-> sort_order]

ListRows ==
    {AgentExecution(Some("u1"), Null, Null, Null, Null, "success", 1, 0, 0, 0, 0),
     AgentExecution(Some("u1"), Null, Null, Null, Null, "failure", 1, 0, 0, 0, 0),
     AgentExecution(Some("u1"), Null, Null, Null, Null, "success", 2, 0, 0, 0, 0),
     AgentExecution(Some("u2"), Null, Null, Null, Null, "success", 1, 0, 0, 0, 0)}

\* 0 and 101 are outside Query(ge=1, le=100)
PageSizes == {0, 1, 2, 101}

PageRequests ==
    {ListRequest(Null, Null, Null, st, Some(0), Some(MaxTime), "24h", pg, ps,
                 "started_at", so) :
        st \in {Null, Some("success")}, pg \in 0 .. MaxPage, ps \in PageSizes,
        so \in {"desc", "asc"}}

NextList ==
    \/ \E row \in ListRows : Len(executions) < MaxExec /\ CreateExecution(row)
    \/ \E user \in Users, req \in PageRequests : ListExecutions(user, req, MaxTime)

SpecList == Init /\ [][NextList]_vars

-----------------------------------------------------------------------------
(* SpecFilters: executions that differ from one another in one attribute;  *)
(* either user lists them under one filter at a time and under a window    *)
(* given in full, in part, or left to the period.                          *)

\* (user_id, agent_id, agent_type, model_name, status, started_at)
FilterProfiles ==
    {<<"u1", "a1", "genai", "m1", "success", 1>>,
     <<"u2", "a1", "genai", "m1", "success", 1>>,
     <<"u1", "a2", "genai", "m1", "success", 1>>,
     <<"u1", "a1", "mcp", "m1", "success", 1>>,
     <<"u1", "a1", "genai", "m2", "success", 1>>,
     <<"u1", "a1", "genai", "m1", "failure", 1>>,
     <<"u1", "a1", "genai", "m1", "success", 0>>,
     <<"u1", "a1", "genai", "m1", "success", 2>>}

FilterRows ==
    {AgentExecution(Some(f[1]), Some(f[2]), Null, Some(f[3]), Some(f[4]), f[5], f[6],
                    0, 0, 0, 0) : f \in FilterProfiles}

\* (agent_id, agent_type, model_name, status)
FilterChoices ==
    {<<Null, Null, Null, Null>>,
     <<Some("a1"), Null, Null, Null>>,
     <<Null, Some("genai"), Null, Null>>,
     <<Null, Null, Some("m1"), Null>>,
     <<Null, Null, Null, Some("success")>>}

\* (start_date, end_date)
WindowChoices ==
    {<<Null, Null>>, <<Some(1), Null>>, <<Null, Some(1)>>,
     <<Some(0), Some(MaxTime)>>, <<Some(1), Some(1)>>}

FilterRequests ==
    {ListRequest(c[1], c[2], c[3], c[4], w[1], w[2], "24h", 1, 100, "started_at", "desc") :
        c \in FilterChoices, w \in WindowChoices}

NextFilters ==
    \/ \E row \in FilterRows : Len(executions) < MaxExec /\ CreateExecution(row)
    \/ \E user \in Users, req \in FilterRequests, now \in Clock :
           ListExecutions(user, req, now)

SpecFilters == Init /\ [][NextFilters]_vars

-----------------------------------------------------------------------------
(* SpecCosts: executions with and without a model and an agent, free or    *)
(* costed, of two users; the overview and the cost summary break the cost  *)
(* of a window down.                                                       *)

\* (user_id, agent_id, agent_name, model_name, started_at, cost_usd)
CostProfiles ==
    {<<"u1", Some("a1"), Some("A"), Some("m1"), 1, 1>>,
     <<"u1", Some("a1"), Some("A"), Some("m2"), 1, 3>>,
     <<"u1", Some("a1"), Some("B"), Some("m1"), 1, 1>>,
     <<"u1", Some("a2"), Some("A"), Null, 1, 3>>,
     <<"u1", Null, Null, Some("m1"), 1, 0>>,
     <<"u1", Some("a1"), Some("A"), Some("m2"), 1, 0>>,
     <<"u1", Some("a1"), Some("A"), Some("m1"), 2, 1>>,
     <<"u2", Some("a1"), Some("A"), Some("m1"), 1, 3>>}

CostRows ==
    {AgentExecution(Some(c[1]), c[2], c[3], Null, c[4], "success", c[5], 0, 0, 0, c[6]) :
        c \in CostProfiles}

NextCosts ==
    \/ \E row \in CostRows : Len(executions) < MaxExec /\ CreateExecution(row)
    \/ \E user \in Users, w \in Windows : GetAnalyticsOverview(user, w[1], w[2])
    \/ \E user \in Users, w \in Windows : GetCostSummary(user, w[1], w[2])

SpecCosts == Init /\ [][NextCosts]_vars

-----------------------------------------------------------------------------
(* SpecAgentStats: executions of agents a1 and a2, those of a1 recorded    *)
(* under two names and two types; either user reads the statistics of      *)
(* either agent.                                                           *)

\* (user_id, agent_id, agent_name, agent_type, status, started_at, tokens, cost_usd)
StatsProfiles ==
    {<<"u1", "a1", "A", "genai", "success", 1, 2, 3>>,
     <<"u1", "a1", "A", "genai", "failure", 1, 1, 1>>,
     <<"u1", "a1", "A", "genai", "timeout", 2, 0, 0>>,
     <<"u1", "a1", "B", "genai", "success", 1, 2, 3>>,
     <<"u1", "a1", "A", "mcp", "success", 1, 2, 3>>,
     <<"u1", "a2", "A", "genai", "success", 1, 2, 3>>,
     <<"u2", "a1", "A", "genai", "success", 1, 2, 3>>}

StatsRows ==
    {AgentExecution(Some(f[1]), Some(f[2]), Some(f[3]), Some(f[4]), Null, f[5], f[6],
                    4, f[7], f[7], f[8]) : f \in StatsProfiles}

AgentIds == {"a1", "a2"}

NextAgentStats ==
    \/ \E row \in StatsRows : Len(executions) < MaxExec /\ CreateExecution(row)
    \/ \E user \in Users, agent_id \in AgentIds, w \in Windows :
           GetAgentStats(user, agent_id, w[1], w[2])

SpecAgentStats == Init /\ [][NextAgentStats]_vars

-----------------------------------------------------------------------------
(* SpecAggregations: executions of equal and of different cost under two   *)
(* models and two agent names, and a budget alert; every aggregation is    *)
(* read, in any order and repeatedly.                                      *)

\* (user_id, agent_name, model_name, started_at, cost_usd)
AggregationProfiles ==
    {<<"u1", "A", "m1", 1, 7999>>,
     <<"u1", "B", "m2", 1, 7999>>,
     <<"u1", "A", "m1", 0, 1>>,
     <<"u2", "A", "m1", 1, 1>>}

AggregationRows ==
    {AgentExecution(Some(f[1]), Some("a1"), Some(f[2]), Some("genai"), Some(f[3]),
                    "success", f[4], 4, 1, 1, f[5]) : f \in AggregationProfiles}

FullWindow == <<0, MaxTime>>

NextAggregations ==
    \/ \E row \in AggregationRows : Len(executions) < MaxExec /\ CreateExecution(row)
    \/ \E data \in BudgetCreates :
           nextAlertId <= MaxAlerts /\ CreateBudgetAlert("u1", data)
    \/ \E user \in Users : GetAnalyticsOverview(user, FullWindow[1], FullWindow[2])
    \/ \E user \in Users : GetAgentStats(user, "a1", FullWindow[1], FullWindow[2])
    \/ \E user \in Users : GetCostSummary(user, FullWindow[1], FullWindow[2])
    \/ \E user \in Users : CompareModels(user, FullWindow[1], FullWindow[2])
    \/ \E user \in Users, now \in Clock : GetCostForecast(user, now)
    \/ \E user \in Users, now \in Clock : CheckBudgetExceeded(user, now)

SpecAggregations == Init /\ [][NextAggregations]_vars

-----------------------------------------------------------------------------
(* SpecExport: executions are inserted one at a time and ExportPageSize at *)
(* a time, so that a user holds fewer, as many and more executions than    *)
(* one export page; either user exports a window as JSON or as CSV.        *)

\* the most executions stored
ExportCapacity == ExportPageSize + MaxSurplus

ExportWindows == {<<1, ExportCapacity>>, <<2, ExportCapacity>>}

NextExport ==
    \/ \E user \in Users :
           /\ Len(executions) < MaxExec \/ Len(executions) >= ExportPageSize
           /\ Len(executions) < ExportCapacity
           /\ SeedExecutions(user, 1)
    \/ \E user \in Users :
           /\ Len(executions) + ExportPageSize <= ExportCapacity
           /\ SeedExecutions(user, ExportPageSize)
    \/ \E user \in Users, format \in {"json", "csv"}, w \in ExportWindows :
           ExportAnalyticsData(user, format, w[1], w[2])

SpecExport == Init /\ [][NextExport]_vars

-----------------------------------------------------------------------------
(* SpecLifecycle: execution records created with and without a status and   *)
(* updated on completion.                                                  *)

StatusChoices == {Null} \cup {Some(s) : s \in ExecutionStatus}

CreateRequests == [user_id : {Some(u) : u \in Users}, status : StatusChoices]

UpdateRequests ==
    [status : StatusChoices, execution_time_ms : {Null, Some(4)},
     cost_usd : {Null}]

NextLifecycle ==
    \/ \E data \in CreateRequests, now \in {1} :
           Len(executions) < MaxExec /\ CreateExecutionRecord(data, now)
    \/ \E id \in 1 .. MaxExec, data \in UpdateRequests :
           UpdateExecutionRecord(id, data)

SpecLifecycle == Init /\ [][NextLifecycle]_vars

-----------------------------------------------------------------------------
(* SpecPercentiles: stores seeded with executions of many durations, some   *)
(* of them 0, read through the overview.                                   *)

SeedCapacity == MaxExec + MaxSeeds * MaxSeedCount

Strides == {0, 3, 7}

PercentileWindows == {<<0, 1>>, <<1, 2>>}

NextPercentiles ==
    \/ \E stride \in Strides :
           Len(executions) < MaxExec /\ SeedTimedExecutions("u1", 1, stride)
    \/ \E stride \in Strides :
           /\ Len(executions) + MaxSeedCount <= SeedCapacity
           /\ SeedTimedExecutions("u1", MaxSeedCount, stride)
    \/ \E user \in Users, w \in PercentileWindows :
           GetAnalyticsOverview(user, w[1], w[2])

SpecPercentiles == Init /\ [][NextPercentiles]_vars

-----------------------------------------------------------------------------
(* SpecForecast: executions of the last two weeks and before, whose costs   *)
(* stand 10 percent, and a little more, above and below 1.00.              *)

WeekTicks == 7 * TicksPerDay

ForecastRows ==
    {AgentExecution(Some("u1"), Null, Null, Null, Null, "success", t, 0, 0, 0, c) :
        t \in {0, WeekTicks - 1, WeekTicks, 2 * WeekTicks},
        c \in {89, 90, 100, 110, 111}}
    \cup
    {AgentExecution(Some("u2"), Null, Null, Null, Null, "success", WeekTicks, 0, 0, 0, 100)}

ForecastClock == {2 * WeekTicks, 2 * WeekTicks + 1}

NextForecast ==
    \/ \E row \in ForecastRows : Len(executions) < MaxExec /\ CreateExecution(row)
    \/ \E user \in Users, now \in ForecastClock : GetCostForecast(user, now)

SpecForecast == Init /\ [][NextForecast]_vars

-----------------------------------------------------------------------------
(* SpecMonthly: overviews over windows of half a day to three days, and     *)
(* over a window that ends before it starts.                               *)

MonthlyRows ==
    {AgentExecution(Some(u), Null, Null, Null, Null, "success", t, 0, 0, 0, c) :
        u \in Users, t \in {0, 1, 3 * TicksPerDay}, c \in {0, 3, 5}}

MonthlyWindows ==
    {<<0, 1>>, <<0, TicksPerDay>>, <<0, TicksPerDay + 1>>, <<0, 2 * TicksPerDay>>,
     <<0, 3 * TicksPerDay>>, <<1, 0>>, <<1, 1>>}

NextMonthly ==
    \/ \E row \in MonthlyRows : Len(executions) < MaxExec /\ CreateExecution(row)
    \/ \E user \in Users, w \in MonthlyWindows : GetAnalyticsOverview(user, w[1], w[2])

SpecMonthly == Init /\ [][NextMonthly]_vars

-----------------------------------------------------------------------------
(* SpecTopAgents: executions of named and unnamed agents, read through the  *)
(* overview.                                                               *)

AgentRows ==
    {AgentExecution(Some("u1"), id, name, Null, Null, s, 1, 0, 0, 0, 0) :
        id \in {Null, Some("a1")}, name \in {Null, Some("A"), Some("B")},
        s \in {"success", "failure"}}
    \cup
    {AgentExecution(Some("u2"), Some("a1"), Some("A"), Null, Null, "success", 1, 0, 0, 0, 0)}

NextTopAgents ==
    \/ \E row \in AgentRows : Len(executions) <= MaxExec /\ CreateExecution(row)
    \/ \E user \in Users : GetAnalyticsOverview(user, 0, MaxTime)

SpecTopAgents == Init /\ [][NextTopAgents]_vars

-----------------------------------------------------------------------------
(* SpecIsolation: executions and budget alerts of two users; either user    *)
(* reads every analytics endpoint.                                         *)

IsolationRows ==
    AggregationRows \cup
    {AgentExecution(Some("u2"), Some("a1"), Some("B"), Some("genai"), Some("m2"),
                    "failure", 1, 4, 1, 1, 7999)}

IsolationRequests ==
    {ListRequest(Null, Null, Null, Null, Some(0), Some(MaxTime), "24h", 1, ps,
                 "started_at", "desc") : ps \in {1, 2}}

NextIsolation ==
    \/ \E row \in IsolationRows : Len(executions) < MaxExec /\ CreateExecution(row)
    \/ \E data \in BudgetCreates :
           nextAlertId <= MaxAlerts /\ CreateBudgetAlert("u2", data)
    \/ \E user \in Users : GetAnalyticsOverview(user, FullWindow[1], FullWindow[2])
    \/ \E user \in Users, req \in IsolationRequests : ListExecutions(user, req, MaxTime)
    \/ \E user \in Users : GetAgentStats(user, "a1", FullWindow[1], FullWindow[2])
    \/ \E user \in Users : GetCostSummary(user, FullWindow[1], FullWindow[2])
    \/ \E user \in Users : GetCostForecast(user, MaxTime)
    \/ \E user \in Users : CompareModels(user, FullWindow[1], FullWindow[2])
    \/ \E user \in Users, format \in {"json", "csv"} :
           ExportAnalyticsData(user, format, FullWindow[1], FullWindow[2])

SpecIsolation == Init /\ [][NextIsolation]_vars

-----------------------------------------------------------------------------
(* SpecConcurrent: user u1 reads the overview query by query while          *)
(* executions of u1 are committed by other sessions.                       *)

ConcurrentRows ==
    {AgentExecution(Some("u1"), Some(a), Some("A"), Null, Some("m1"), s, 1, 4, 1, 1, c) :
        a \in {"a1", "a2"}, s \in {"success", "failure"}, c \in {1, 3}}

NextConcurrent ==
    \/ \E row \in ConcurrentRows : Len(executions) < MaxExec /\ CommitExecution(row)
    \/ OverviewMetrics("u1", FullWindow[1], FullWindow[2])
    \/ OverviewTimes
    \/ OverviewTopAgents
    \/ OverviewCostByModel
    \/ OverviewPrevious
    \/ OverviewActiveAgents

SpecConcurrent == Init /\ [][NextConcurrent]_vars

-----------------------------------------------------------------------------
(* Properties of the overview *)

IsOverview == resp.op = "overview"

\* Ids of the stored executions of resp.user started within the requested window
InWindow ==
    {i \in 1 .. Len(executions) :
        /\ executions[i].user_id = Some(resp.user)
        /\ resp.start_date <= executions[i].started_at
        /\ executions[i].started_at <= resp.end_date}

WithStatus(ids, statuses) == {i \in ids : executions[i].status \in statuses}

\* C1: the overview's total_executions is the number of the caller's executions
\* started in the window, successful_executions and failed_executions the numbers
\* of those with status success and failure, total = successful + failed + the
\* number in any other status, and success_rate = successful / total * 100 when
\* total > 0 (8 successes and 2 failures give 80.0).
C1_OverviewCounts ==
    IsOverview =>
        LET b == resp.body
            other == WithStatus(InWindow, {"pending", "running", "timeout", "cancelled"})
        IN  /\ b.total_executions = Cardinality(InWindow)
            /\ b.successful_executions = Cardinality(WithStatus(InWindow, {"success"}))
            /\ b.failed_executions = Cardinality(WithStatus(InWindow, {"failure"}))
            /\ b.total_executions =
                   b.successful_executions + b.failed_executions + Cardinality(other)
            /\ b.total_executions > 0 =>
                   /\ b.success_rate[2] > 0
                   /\ b.success_rate[1] * b.total_executions =
                          b.successful_executions * 100 * b.success_rate[2]
            /\ (b.successful_executions = 8 /\ b.failed_executions = 2
                    /\ b.total_executions = 10) => b.success_rate = <<80, 1>>

\* Ten executions in the window, eight successful and two failed
C1_Witness ==
    /\ IsOverview
    /\ resp.body.total_executions = 10
    /\ resp.body.successful_executions = 8
    /\ resp.body.failed_executions = 2

\* C2 as stated: success_rate is 0 if and only if total_executions is 0.
C2_RateZeroIffEmpty ==
    IsOverview => (resp.body.success_rate = RatZero <=> resp.body.total_executions = 0)

\* C2, amended: success_rate is always a defined number between 0 and 100; it is
\* 0 if and only if successful_executions is 0, so it is 0 whenever
\* total_executions is 0, and also when the window holds executions none of
\* which succeeded.
C2_RateZeroIffNoSuccess ==
    IsOverview =>
        LET b == resp.body
        IN  /\ b.success_rate[2] > 0
            /\ 0 <= b.success_rate[1]
            /\ b.success_rate[1] <= 100 * b.success_rate[2]
            /\ b.success_rate = RatZero <=> b.successful_executions = 0
            /\ b.total_executions = 0 => b.success_rate = RatZero

\* A window with executions, none successful: the rate is 0 and the total is not
C2_Witness ==
    /\ IsOverview
    /\ resp.body.total_executions > 0
    /\ resp.body.successful_executions = 0
    /\ resp.body.success_rate = RatZero

\* Ids of the stored executions of resp.user started in the period of the same
\* length that ends where the requested window starts
InPrevious ==
    {i \in 1 .. Len(executions) :
        /\ executions[i].user_id = Some(resp.user)
        /\ resp.start_date - (resp.end_date - resp.start_date) <= executions[i].started_at
        /\ executions[i].started_at < resp.start_date}

RECURSIVE SumOver(_, _)
SumOver(ids, f) ==
    IF ids = {} THEN 0
    ELSE LET i == CHOOSE j \in ids : TRUE IN f[i] + SumOver(ids \ {i}, f)

TimeOf == [i \in 1 .. Len(executions) |-> executions[i].execution_time_ms]

CostOf == [i \in 1 .. Len(executions) |-> executions[i].cost_usd]

\* change is null when the baseline prev is 0 and (cur - prev) / prev * 100 otherwise
ChangeIs(change, cur, prev) ==
    IF prev = 0 THEN change = Null
    ELSE /\ change # Null
         /\ change[2] > 0
         /\ change[1] * prev = (cur - prev) * 100 * change[2]

\* the same for metrics that are quotients cs/cn and ps/pn (0 when the divisor is 0)
QuotientChangeIs(change, cs, cn, ps, pn) ==
    IF pn = 0 \/ ps = 0 THEN change = Null
    ELSE /\ change # Null
         /\ change[2] > 0
         /\ IF cn = 0 THEN change = <<0 - 100, 1>>
            ELSE change[1] * ps * cn = (cs * pn - ps * cn) * 100 * change[2]

\* C3: each of the four change fields of the overview is null exactly when the
\* previous period's value of its metric is 0, and is otherwise the finite number
\* (current - previous) / previous * 100.
C3_ChangeFields ==
    IsOverview =>
        LET b == resp.body
            cur == InWindow
            prev == InPrevious
        IN  /\ ChangeIs(b.executions_change_percent, Cardinality(cur), Cardinality(prev))
            /\ ChangeIs(b.cost_change_percent, SumOver(cur, CostOf), SumOver(prev, CostOf))
            /\ QuotientChangeIs(b.execution_time_change_percent,
                                SumOver(cur, TimeOf), Cardinality(cur),
                                SumOver(prev, TimeOf), Cardinality(prev))
            /\ QuotientChangeIs(b.success_rate_change_percent,
                                Cardinality(WithStatus(cur, {"success"})), Cardinality(cur),
                                Cardinality(WithStatus(prev, {"success"})), Cardinality(prev))

\* The previous period holds executions that cost nothing: the cost change is
\* null while the change of the number of executions is a number
C3_Witness ==
    /\ IsOverview
    /\ InPrevious # {}
    /\ resp.body.cost_change_percent = Null
    /\ resp.body.executions_change_percent # Null
    /\ resp.body.execution_time_change_percent # Null

-----------------------------------------------------------------------------
(* Properties of the budget alert routes *)

IsPatchOrDelete(r) == r.op \in {"update_budget", "delete_budget"}

WellFormed(r) == r.op = "update_budget" => ValidUpdate(r.data)

\* C4: a well-formed PATCH or DELETE of a stored alert by a user who is not its
\* owner ends in 403 and leaves the alerts table as it was; the same request by
\* the owner ends in 200 and takes effect.
C4_OnlyOwnerChangesAlert ==
    [][LET r == resp'
       IN  (IsPatchOrDelete(r) /\ WellFormed(r) /\ r.alert_id[1] \in DOMAIN alerts) =>
               LET id == r.alert_id[1]
               IN  IF alerts[id].user_id # r.user
                   THEN r.status = 403 /\ r.body = Null /\ alerts' = alerts
                   ELSE /\ r.status = 200
                        /\ r.op = "delete_budget" => id \notin DOMAIN alerts'
                        /\ r.op = "update_budget" =>
                               /\ id \in DOMAIN alerts'
                               /\ r.data.threshold_usd # Null =>
                                      alerts'[id].threshold_usd = r.data.threshold_usd[1]
                               /\ r.data.is_active # Null =>
                                      alerts'[id].is_active = r.data.is_active[1]]_vars

\* A PATCH by the other user was denied and the alert still has its created values
C4_Witness ==
    /\ resp.op = "update_budget"
    /\ resp.status = 403
    /\ resp.data.threshold_usd = Some(7500)
    /\ resp.alert_id[1] \in DOMAIN alerts
    /\ alerts[resp.alert_id[1]].user_id # resp.user
    /\ alerts[resp.alert_id[1]].threshold_usd = 10000

AlertFields ==
    {"scope", "scope_id", "threshold_usd", "period_days", "alert_type",
     "alert_at_percentage", "webhook_url", "email_notification", "is_active",
     "last_alert_sent_at", "current_spend_usd", "user_id"}

\* the value a create request asks for, defaults filled in
Requested(data, f) ==
    CASE f = "scope" -> IF data.scope = Null THEN "user" ELSE data.scope[1]
      [] f = "scope_id" -> data.scope_id
      [] f = "threshold_usd" -> data.threshold_usd
      [] f = "period_days" -> IF data.period_days = Null THEN 30 ELSE data.period_days[1]
      [] f = "alert_type" -> IF data.alert_type = Null THEN "warning" ELSE data.alert_type[1]
      [] f = "alert_at_percentage" ->
             IF data.alert_at_percentage = Null THEN 80 ELSE data.alert_at_percentage[1]

CreateFields ==
    {"scope", "scope_id", "threshold_usd", "period_days", "alert_type", "alert_at_percentage"}

PatchFields ==
    {"threshold_usd", "period_days", "alert_type", "alert_at_percentage", "is_active"}

\* C7: the alert a create stores and returns carries the requested field values
\* and the caller as owner, the list returns the stored values, and a successful
\* PATCH sets exactly the fields present in the request, leaving every other
\* field of that alert and every other alert as they were.
C7_RoundTripAndFrame ==
    /\ [](/\ (resp.op = "create_budget" /\ resp.status = 200) =>
                 /\ resp.alert_id[1] \in DOMAIN alerts
                 /\ \A f \in CreateFields :
                        /\ resp.body[f] = Requested(resp.data, f)
                        /\ alerts[resp.alert_id[1]][f] = Requested(resp.data, f)
                 /\ resp.body.user_id = resp.user
                 /\ alerts[resp.alert_id[1]].user_id = resp.user
          /\ resp.op = "list_budgets" =>
                 \A d \in resp.body :
                     /\ d.id \in DOMAIN alerts
                     /\ \A f \in AlertFields : d[f] = alerts[d.id][f])
    /\ [][LET r == resp'
          IN  (r.op = "update_budget" /\ r.status = 200) =>
                  LET id == r.alert_id[1]
                  IN  /\ DOMAIN alerts' = DOMAIN alerts
                      /\ \A i \in DOMAIN alerts \ {id} : alerts'[i] = alerts[i]
                      /\ \A f \in AlertFields :
                             /\ alerts'[id][f] =
                                    IF f \in PatchFields /\ r.data[f] # Null
                                    THEN r.data[f][1] ELSE alerts[id][f]
                             /\ r.body[f] = alerts'[id][f]]_vars

\* threshold_usd was patched to 75.00 on an alert created with period_days 7:
\* the threshold is 75.00, the period, scope and type are the created ones
C7_Witness ==
    /\ resp.op = "update_budget"
    /\ resp.status = 200
    /\ resp.data.threshold_usd = Some(7500)
    /\ resp.body.threshold_usd = 7500
    /\ resp.body.period_days = 7
    /\ resp.body.scope = "agent"
    /\ resp.body.alert_type = "hard_stop"

\* C8 as stated: the list holds every stored alert of the caller and no alert of
\* another user.
C8_ListsEveryOwnedAlert ==
    resp.op = "list_budgets" =>
        {d.id : d \in resp.body} = {i \in DOMAIN alerts : alerts[i].user_id = resp.user}

RequestedPercentage(r) ==
    IF r.op = "create_budget" THEN Some(Requested(r.data, "alert_at_percentage"))
    ELSE r.data.alert_at_percentage

\* C9: every stored alert has alert_at_percentage in 1..100, and a create or
\* update that carries a value outside that range ends in 422 and leaves the
\* alerts table as it was.
C9_PercentageInRange ==
    /\ [](\A i \in DOMAIN alerts :
              alerts[i].alert_at_percentage >= 1 /\ alerts[i].alert_at_percentage <= 100)
    /\ [][LET r == resp'
          IN  (/\ r.op \in {"create_budget", "update_budget"}
               /\ RequestedPercentage(r) # Null
               /\ RequestedPercentage(r)[1] \notin 1 .. 100) =>
                  r.status = 422 /\ alerts' = alerts /\ nextAlertId' = nextAlertId]_vars

\* A PATCH with percentage 150 on a stored alert was rejected
C9_Witness ==
    /\ resp.op = "update_budget"
    /\ resp.status = 422
    /\ resp.data.alert_at_percentage = Some(150)
    /\ resp.alert_id[1] \in DOMAIN alerts
    /\ alerts[resp.alert_id[1]].alert_at_percentage = 80

-----------------------------------------------------------------------------
(* Properties of the execution detail route and of missing ids *)

IsDetails == resp.op = "execution_details"

\* C5: reading an execution whose owner is another user ends in 403 and carries
\* nothing of the execution, its traces or its token usages; for the owner it
\* ends in 200 and carries the execution with its traces and token usages.
C5_DetailsOnlyForOwner ==
    (IsDetails /\ resp.execution_id \in 1 .. Len(executions)) =>
        LET id == resp.execution_id
            e == executions[id]
        IN  /\ (e.user_id # Null /\ e.user_id # Some(resp.user)) =>
                   resp.status = 403 /\ resp.body = Null
            /\ e.user_id = Some(resp.user) =>
                   /\ resp.status = 200
                   /\ resp.body.id = id
                   /\ resp.body.user_id = e.user_id
                   /\ resp.body.status = e.status
                   /\ resp.body.cost_usd = e.cost_usd
                   /\ {t.id : t \in {resp.body.traces[k] : k \in DOMAIN resp.body.traces}}
                          = ChildrenOf(traces, id)
                   /\ Len(resp.body.traces) = Cardinality(ChildrenOf(traces, id))
                   /\ {u.id : u \in {resp.body.token_usages[k] :
                                         k \in DOMAIN resp.body.token_usages}}
                          = ChildrenOf(token_usages, id)

\* The other user was denied an execution that has trace steps and a token usage
C5_Witness ==
    /\ IsDetails
    /\ resp.status = 403
    /\ resp.execution_id \in 1 .. Len(executions)
    /\ executions[resp.execution_id].user_id \notin {Null, Some(resp.user)}
    /\ ChildrenOf(traces, resp.execution_id) # {}
    /\ ChildrenOf(token_usages, resp.execution_id) # {}

\* C6: a well-formed PATCH or a DELETE of an alert id with no stored alert, and
\* a GET of an execution id with no stored execution, end in 404 for every
\* caller and change no table; a DELETE repeated after a successful DELETE of
\* the same id ends in 404.
C6_MissingIsNotFound ==
    [][LET r == resp'
       IN  /\ (IsPatchOrDelete(r) /\ WellFormed(r) /\ r.alert_id[1] \notin DOMAIN alerts) =>
                  /\ r.status = 404
                  /\ UNCHANGED <<executions, traces, token_usages, alerts, nextAlertId>>
           /\ (r.op = "execution_details" /\ r.execution_id \notin 1 .. Len(executions)) =>
                  /\ r.status = 404
                  /\ UNCHANGED <<executions, traces, token_usages, alerts, nextAlertId>>
           /\ (/\ resp.op = "delete_budget" /\ resp.status = 200
               /\ r.op = "delete_budget" /\ r.alert_id = resp.alert_id) =>
                  r.status = 404]_vars

\* A DELETE of an alert id that was issued and deleted before, while another
\* alert is stored, ended in 404
C6_Witness ==
    /\ resp.op = "delete_budget"
    /\ resp.status = 404
    /\ resp.alert_id[1] < nextAlertId
    /\ DOMAIN alerts # {}
    /\ Len(executions) > 0

-----------------------------------------------------------------------------
(* Properties of the budget check *)

\* Ids of the executions whose cost the check of alert i recomputes at resp.now
SpendIds(i) ==
    {k \in 1 .. Len(executions) :
        /\ executions[k].user_id = Some(resp.user)
        /\ executions[k].started_at >= resp.now - alerts[i].period_days * TicksPerDay
        /\ (alerts[i].scope = "agent" /\ alerts[i].scope_id # Null) =>
               executions[k].agent_id = alerts[i].scope_id}

Reported(i) == \E x \in resp.body : x.alert_id = i

\* C10: an active alert of the user is reported as exceeded, with its recomputed
\* spend, exactly when that spend >= threshold_usd * alert_at_percentage / 100;
\* at threshold 100.00 and 80 percent a spend of 79.99 is not reported and a
\* spend of 80.00 is.
C10_ExceededAtThreshold ==
    resp.op = "check_budget" =>
        /\ \A x \in resp.body :
               /\ x.alert_id \in DOMAIN alerts
               /\ alerts[x.alert_id].user_id = resp.user
               /\ x.current_spend = SumOver(SpendIds(x.alert_id), CostOf)
        /\ \A i \in DOMAIN alerts :
               (alerts[i].user_id = resp.user /\ alerts[i].is_active) =>
                   LET spend == SumOver(SpendIds(i), CostOf)
                   IN  /\ Reported(i) <=>
                              spend * 100 >=
                                  alerts[i].threshold_usd * alerts[i].alert_at_percentage
                       /\ (alerts[i].threshold_usd = 10000
                               /\ alerts[i].alert_at_percentage = 80) =>
                              /\ spend = 7999 => ~Reported(i)
                              /\ spend = 8000 => Reported(i)

\* One check finds an alert at a spend of exactly 80.00, reported, and an alert
\* at a spend of 79.99, not reported
C10_Witness ==
    /\ resp.op = "check_budget"
    /\ \E i, j \in DOMAIN alerts :
           /\ alerts[i].user_id = resp.user /\ alerts[j].user_id = resp.user
           /\ SumOver(SpendIds(i), CostOf) = 8000 /\ Reported(i)
           /\ SumOver(SpendIds(j), CostOf) = 7999 /\ ~Reported(j)

-----------------------------------------------------------------------------
(* Properties of the paginated listing *)

IsListing == resp.op = "list_executions" /\ resp.status = 200

\* Ids of the stored executions of resp.user that pass the status filter and
\* the explicit window of the request resp.req
Listable ==
    {i \in 1 .. Len(executions) :
        /\ executions[i].user_id = Some(resp.user)
        /\ resp.req.status # Null => executions[i].status = resp.req.status[1]
        /\ resp.req.start_date[1] <= executions[i].started_at
        /\ executions[i].started_at <= resp.req.end_date[1]}

\* C11: a listing with page_size p >= 1 returns at most p items, echoes page
\* and page_size, reports as total the number of executions matching the
\* filters, and reports total_pages = ceil(total / p), which is 0 when total
\* is 0.
C11_PageArithmetic ==
    IsListing =>
        LET b == resp.body
            p == resp.req.page_size
        IN  /\ p >= 1
            /\ Len(b.items) <= p
            /\ b.page = resp.req.page
            /\ b.page_size = p
            /\ b.total = Cardinality(Listable)
            /\ b.total_pages >= 0
            /\ b.total_pages * p >= b.total
            /\ (b.total_pages - 1) * p < b.total
            /\ (b.total = 0 => b.total_pages = 0)

\* two executions match, listed one a page: the second page holds one of them
C11_Witness ==
    /\ IsListing
    /\ resp.req.page_size = 1
    /\ resp.req.page = 2
    /\ resp.body.total = 2
    /\ resp.body.total_pages = 2
    /\ Len(resp.body.items) = 1

\* C12: a listing of a page beyond total_pages has no items, and its total
\* and total_pages are those of page 1 of the same query.
C12_PageBeyondRange ==
    (IsListing /\ resp.req.page > resp.body.total_pages) =>
        /\ resp.body.items = <<>>
        /\ LET q1 == [ListQuery(resp.user, resp.req, resp.now) EXCEPT !.page = 1]
           IN  \A tie \in TieBreaks(executions, MatchingIds(executions, q1), q1.sort_by) :
                   LET first == list_paginated(executions, q1, tie)
                   IN  /\ first.total = resp.body.total
                       /\ first.total_pages = resp.body.total_pages

\* two executions match, one a page: page 3 is empty and still reports 2
C12_Witness ==
    /\ IsListing
    /\ resp.req.page = 3
    /\ resp.req.page_size = 1
    /\ resp.body.total = 2
    /\ resp.body.total_pages = 2
    /\ resp.body.items = <<>>

\* Ids of the stored executions of resp.user that satisfy every filter the
\* request resp.req supplies; the period stands for the window only when
\* neither start_date nor end_date is supplied
SatisfiesSupplied ==
    {i \in 1 .. Len(executions) :
        LET e == executions[i]
            r == resp.req
        IN  /\ e.user_id = Some(resp.user)
            /\ r.agent_id # Null => e.agent_id = r.agent_id
            /\ r.agent_type # Null => e.agent_type = r.agent_type
            /\ r.model_name # Null => e.model_name = r.model_name
            /\ r.status # Null => e.status = r.status[1]
            /\ r.start_date # Null => e.started_at >= r.start_date[1]
            /\ r.end_date # Null => e.started_at <= r.end_date[1]
            /\ (r.start_date = Null /\ r.end_date = Null) =>
                   /\ e.started_at >= parse_period(r.period, resp.now)[1]
                   /\ e.started_at <= parse_period(r.period, resp.now)[2]}

\* C13: every item of a listing satisfies every filter the request supplied
\* (status, agent_id, agent_type, model_name, time window) and belongs to the
\* caller, and total counts exactly the executions satisfying those filters.
C13_ItemsSatisfyFilters ==
    IsListing =>
        /\ \A k \in 1 .. Len(resp.body.items) : resp.body.items[k].id \in SatisfiesSupplied
        /\ resp.body.total = Cardinality(SatisfiesSupplied)

-----------------------------------------------------------------------------
(* Properties of the cost breakdowns *)

RatAdd(a, b) == Rat(a[1] * b[2] + b[1] * a[2], a[2] * b[2])

RatLeq(a, b) == a[1] * b[2] <= b[1] * a[2]

RECURSIVE PercentageSum(_)
PercentageSum(breakdown) ==
    IF breakdown = <<>> THEN RatZero
    ELSE RatAdd(Head(breakdown).percentage, PercentageSum(Tail(breakdown)))

\* every share is in [0, 100], the shares sum to at most 100, and all are 0
\* when the total is 0
SharesOf(breakdown, total_cost) ==
    /\ \A k \in 1 .. Len(breakdown) :
           /\ RatLeq(RatZero, breakdown[k].percentage)
           /\ RatLeq(breakdown[k].percentage, RatInt(100))
           /\ total_cost = 0 => breakdown[k].percentage = RatZero
    /\ RatLeq(PercentageSum(breakdown), RatInt(100))

\* C14: the percentages of the overview's cost_by_model and of the cost
\* summary's by_model and by_agent are each in [0, 100], sum to at most 100
\* within one breakdown, and are all 0 when the window's total cost is 0.
C14_CostShares ==
    /\ IsOverview => SharesOf(resp.body.cost_by_model, resp.body.total_cost_usd)
    /\ resp.op = "cost_summary" =>
           /\ SharesOf(resp.body.by_model, resp.body.total_cost_usd)
           /\ SharesOf(resp.body.by_agent, resp.body.total_cost_usd)

\* a cost summary whose two models hold 75 and 25 percent of the cost, spent
\* by two agents
C14_Witness ==
    /\ resp.op = "cost_summary"
    /\ resp.body.total_cost_usd = 4
    /\ Len(resp.body.by_model) = 2
    /\ resp.body.by_model[1].percentage = RatInt(75)
    /\ resp.body.by_model[2].percentage = RatInt(25)
    /\ Len(resp.body.by_agent) = 2

-----------------------------------------------------------------------------
(* Properties of the agent statistics *)

\* Ids of the stored executions of resp.user with the requested agent_id that
\* started within the requested window
OfAgent ==
    {i \in 1 .. Len(executions) :
        /\ executions[i].user_id = Some(resp.user)
        /\ executions[i].agent_id = Some(resp.agent_id)
        /\ resp.start_date <= executions[i].started_at
        /\ executions[i].started_at <= resp.end_date}

TokensOf == [i \in 1 .. Len(executions) |-> executions[i].total_tokens]

\* C16: the agent statistics are not-found exactly when the caller has no
\* execution of that agent_id in the window; otherwise the total, successful,
\* failed and timeout counts and the token and cost totals cover every such
\* execution, whatever agent_name or agent_type the rows carry.
C16_StatsCoverAgent ==
    resp.op = "agent_stats" =>
        /\ resp.status = 404 <=> OfAgent = {}
        /\ resp.status = 200 =>
               /\ resp.body.total_executions = Cardinality(OfAgent)
               /\ resp.body.successful_executions =
                      Cardinality(WithStatus(OfAgent, {"success"}))
               /\ resp.body.failed_executions =
                      Cardinality(WithStatus(OfAgent, {"failure"}))
               /\ resp.body.timeout_executions =
                      Cardinality(WithStatus(OfAgent, {"timeout"}))
               /\ resp.body.total_tokens = SumOver(OfAgent, TokensOf)
               /\ resp.body.total_cost_usd = SumOver(OfAgent, CostOf)

-----------------------------------------------------------------------------
(* Properties of the aggregations as a whole *)

Aggregations ==
    {"overview", "agent_stats", "cost_summary", "cost_forecast", "compare_models",
     "check_budget"}

\* the aggregations that take an explicit window
Windowed == {"overview", "agent_stats", "cost_summary", "compare_models"}

\* the step repeats the call that produced the present response: the same
\* operation for the same user with the same window (and agent)
RepeatsCall ==
    /\ resp.op \in Windowed
    /\ resp'.op = resp.op
    /\ resp'.user = resp.user
    /\ resp'.start_date = resp.start_date
    /\ resp'.end_date = resp.end_date
    /\ resp.op = "agent_stats" => resp'.agent_id = resp.agent_id

\* C15: an aggregation leaves every stored execution, trace, token usage and
\* budget alert unchanged, and a call repeated with the same explicit window
\* and no write in between returns the identical result.
C15_ReadOnlyIdempotent ==
    [][/\ resp'.op \in Aggregations =>
              UNCHANGED <<executions, traces, token_usages, alerts, nextAlertId>>
       /\ RepeatsCall => (resp'.status = resp.status /\ resp'.body = resp.body)]_vars

-----------------------------------------------------------------------------
(* Properties of the export *)

\* the execution records of the export response
Exported == IF resp.format = "csv" THEN resp.body.rows ELSE resp.body.executions

\* the ids of the executions of resp.user started within the exported window
NumberInWindow ==
    Len(SelectSeq(executions, LAMBDA e :
            /\ e.user_id = Some(resp.user)
            /\ resp.start_date <= e.started_at
            /\ e.started_at <= resp.end_date))

\* C17: an export, JSON or CSV, holds every execution of the caller that
\* started in the requested window, and the number of exported records
\* equals the reported total_records, however many executions are stored.
C17_ExportIsComplete ==
    resp.op = "export" =>
        /\ Len(Exported) = NumberInWindow
        /\ resp.format = "json" => Len(Exported) = resp.body.total_records

-----------------------------------------------------------------------------
(* The windows of the overview *)

\* Ids of the stored executions of resp.user with start_date <= started_at < end_date
InHalfOpenWindow ==
    {i \in 1 .. Len(executions) :
        /\ executions[i].user_id = Some(resp.user)
        /\ resp.start_date <= executions[i].started_at
        /\ executions[i].started_at < resp.end_date}

\* C19: the overview counts an execution exactly when
\* start <= started_at < end: no field of the overview counts an execution
\* whose started_at equals end.
C19_HalfOpenWindow ==
    IsOverview =>
        LET b == resp.body
        IN  /\ b.total_executions = Cardinality(InHalfOpenWindow)
            /\ b.successful_executions =
                   Cardinality(WithStatus(InHalfOpenWindow, {"success"}))
            /\ b.failed_executions =
                   Cardinality(WithStatus(InHalfOpenWindow, {"failure"}))
            /\ b.total_cost_usd = SumOver(InHalfOpenWindow, CostOf)

\* Ids of the stored executions the overview of resp takes into its current
\* period, and into its previous period
CountedCurrent ==
    {i \in 1 .. Len(executions) :
        OverviewFilter(executions[i], Some(resp.user), resp.start_date, resp.end_date)}

CountedPrevious ==
    {i \in 1 .. Len(executions) :
        PrevFilter(executions[i], Some(resp.user),
                   resp.start_date - (resp.end_date - resp.start_date), resp.start_date)}

\* C20: the baseline of the overview is taken over
\* [start - (end - start), start): it holds exactly the caller's executions
\* started there, no execution is counted in both periods, an execution
\* started at start is counted in the current period only, and the change of
\* the number of executions is computed from these two counts.
C20_PreviousWindow ==
    IsOverview =>
        /\ CountedPrevious = InPrevious
        /\ CountedCurrent \cap CountedPrevious = {}
        /\ \A i \in 1 .. Len(executions) :
               (executions[i].user_id = Some(resp.user)
                    /\ executions[i].started_at = resp.start_date)
               => (i \in CountedCurrent /\ i \notin CountedPrevious)
        /\ resp.body.total_executions = Cardinality(CountedCurrent)
        /\ ChangeIs(resp.body.executions_change_percent,
                    Cardinality(CountedCurrent), Cardinality(InPrevious))

\* An execution started exactly at start and one in the period before it: one
\* execution in each period, so the number of executions did not change
C20_Witness ==
    /\ IsOverview
    /\ \E i \in CountedCurrent : executions[i].started_at = resp.start_date
    /\ Cardinality(InPrevious) = 1
    /\ resp.body.total_executions = 1
    /\ resp.body.executions_change_percent = RatZero

-----------------------------------------------------------------------------
(* The status of an execution *)

\* the position of a status on pending -> running -> finished
StatusRank(s) == CASE s = "pending" -> 0 [] s = "running" -> 1 [] OTHER -> 2

TerminalStatus == {"success", "failure", "timeout", "cancelled"}

\* C18: over create and update operations the status of a stored
\* execution never goes back to an earlier status and never leaves a terminal
\* status.
C18_StatusMovesForward ==
    [][\A i \in 1 .. Len(executions) :
           /\ StatusRank(executions'[i].status) >= StatusRank(executions[i].status)
           /\ executions[i].status \in TerminalStatus =>
                  executions'[i].status = executions[i].status]_vars

-----------------------------------------------------------------------------
(* The window of the budget check *)

\* Ids of the executions of resp.user started in [now - period_days, now) that
\* alert i covers: all of them, or those of agent scope_id under scope agent
InBudgetWindow(i) ==
    {k \in 1 .. Len(executions) :
        /\ executions[k].user_id = Some(resp.user)
        /\ executions[k].started_at >= resp.now - alerts[i].period_days * TicksPerDay
        /\ executions[k].started_at < resp.now
        /\ alerts[i].scope = "agent" => executions[k].agent_id = alerts[i].scope_id}

\* C21: the spend the budget check reports for an alert is the sum of
\* cost_usd over the user's executions started in [now - period_days, now),
\* restricted to the agent scope_id when the alert's scope is agent, and only
\* active alerts of the user are reported.
C21_SpendWindow ==
    resp.op = "check_budget" =>
        \A x \in resp.body :
            /\ alerts[x.alert_id].user_id = resp.user
            /\ alerts[x.alert_id].is_active
            /\ x.current_spend = SumOver(InBudgetWindow(x.alert_id), CostOf)

-----------------------------------------------------------------------------
(* The percentiles of the overview *)

\* Ids of the executions in the window of resp that took more than 0 ms
PositiveInWindow == {i \in InWindow : executions[i].execution_time_ms > 0}

\* v stands at zero-based position index when the times of PositiveInWindow
\* are put in ascending order
IsAtRank(v, index) ==
    /\ \E i \in PositiveInWindow : executions[i].execution_time_ms = v
    /\ Cardinality({i \in PositiveInWindow : executions[i].execution_time_ms < v}) <= index
    /\ index < Cardinality({i \in PositiveInWindow : executions[i].execution_time_ms <= v})

\* C22: with n the number of in-window execution times > 0, the
\* overview's p50, p95 and p99 are the times at zero-based positions
\* floor(0.50 n), floor(0.95 n) and floor(0.99 n) of their ascending order, and
\* all three are 0 when n = 0.
C22_NearestRank ==
    IsOverview =>
        LET b == resp.body
            n == Cardinality(PositiveInWindow)
        IN  IF n = 0
            THEN /\ b.p50_execution_time_ms = 0
                 /\ b.p95_execution_time_ms = 0
                 /\ b.p99_execution_time_ms = 0
            ELSE /\ IsAtRank(b.p50_execution_time_ms, (50 * n) \div 100)
                 /\ IsAtRank(b.p95_execution_time_ms, (95 * n) \div 100)
                 /\ IsAtRank(b.p99_execution_time_ms, (99 * n) \div 100)

\* More than twenty positive times and one of 0 ms in the window, and three
\* different percentiles
C22_Witness ==
    /\ IsOverview
    /\ Cardinality(PositiveInWindow) > 20
    /\ PositiveInWindow # InWindow
    /\ resp.body.p50_execution_time_ms < resp.body.p95_execution_time_ms
    /\ resp.body.p95_execution_time_ms < resp.body.p99_execution_time_ms

\* C29: for every number n >= 1 of positive execution times the three
\* indices the overview reads are within 0 .. n - 1, and
\* p50 <= p95 <= p99 <= the largest execution time in the window.
C29_IndicesAndOrder ==
    IsOverview =>
        LET b == resp.body
            n == Cardinality(PositiveInWindow)
        IN  n >= 1 =>
                /\ {MedianIndex(n), PercentileIndex(n, 95), PercentileIndex(n, 99)}
                       \subseteq 0 .. n - 1
                /\ b.p50_execution_time_ms <= b.p95_execution_time_ms
                /\ b.p95_execution_time_ms <= b.p99_execution_time_ms
                /\ \E i \in InWindow :
                       b.p99_execution_time_ms <= executions[i].execution_time_ms

\* One positive time only: every index is 0 and the three percentiles are
\* that time
C29_Witness ==
    /\ IsOverview
    /\ Cardinality(PositiveInWindow) = 1
    /\ Cardinality(InWindow) > 1
    /\ resp.body.p50_execution_time_ms > 0
    /\ resp.body.p50_execution_time_ms = resp.body.p99_execution_time_ms

-----------------------------------------------------------------------------
(* The cost forecast *)

\* Ids of the executions of resp.user started at or after resp.now - 7 days
InLastWeek ==
    {i \in 1 .. Len(executions) :
        /\ executions[i].user_id = Some(resp.user)
        /\ executions[i].started_at >= resp.now - 7 * TicksPerDay}

\* ... and in the 7 days before those
InWeekBefore ==
    {i \in 1 .. Len(executions) :
        /\ executions[i].user_id = Some(resp.user)
        /\ executions[i].started_at >= resp.now - 14 * TicksPerDay
        /\ executions[i].started_at < resp.now - 7 * TicksPerDay}

\* C23: the forecast sets the cost of the last 7 days against the cost of
\* the 7 days before: the trend is increasing when the change is above 10
\* percent, decreasing when it is below -10 percent and stable otherwise, a
\* change of exactly 10 or -10 percent included; with no cost in the 7 days
\* before, the trend is stable and its percentage 0; the daily average is the
\* current cost / 7 and the monthly projection 30 times that.
C23_ForecastTrend ==
    resp.op = "cost_forecast" =>
        LET b == resp.body
            cur == SumOver(InLastWeek, CostOf)
            prev == SumOver(InWeekBefore, CostOf)
            delta == (cur - prev) * 100
        IN  /\ b.current_period_cost_usd = cur
            /\ b.daily_average_cost_usd[2] > 0
            /\ b.daily_average_cost_usd[1] * 7 = cur * b.daily_average_cost_usd[2]
            /\ b.projected_monthly_cost_usd[2] > 0
            /\ b.projected_monthly_cost_usd[1] * 7
                   = cur * 30 * b.projected_monthly_cost_usd[2]
            /\ b.trend_percentage[2] > 0
            /\ IF prev = 0
               THEN b.cost_trend = "stable" /\ b.trend_percentage = RatZero
               ELSE /\ b.trend_percentage[1] * prev = delta * b.trend_percentage[2]
                    /\ b.cost_trend = "increasing" <=> delta > 10 * prev
                    /\ b.cost_trend = "decreasing" <=> delta < (0 - 10) * prev
                    /\ b.cost_trend = "stable" <=>
                           (delta <= 10 * prev /\ delta >= (0 - 10) * prev)

\* The cost rose by exactly 10 percent, from 1.00 to 1.10: the trend is stable
C23_Witness ==
    /\ resp.op = "cost_forecast"
    /\ SumOver(InWeekBefore, CostOf) = 100
    /\ SumOver(InLastWeek, CostOf) = 110
    /\ resp.body.trend_percentage = RatInt(10)
    /\ resp.body.cost_trend = "stable"

-----------------------------------------------------------------------------
(* The monthly estimate of the overview *)

\* the whole days in resp.end_date - resp.start_date
WindowLengthDays == (resp.end_date - resp.start_date) \div TicksPerDay

\* C25: the overview's estimated monthly cost is total_cost * 30 divided
\* by the whole number of days in end - start, or by 1 when that number is
\* below 1: windows of one day and shorter windows give total_cost * 30, and
\* no window divides by zero.
C25_MonthlyEstimate ==
    IsOverview =>
        LET b == resp.body
            est == b.estimated_monthly_cost_usd
            days == WindowLengthDays
        IN  /\ b.total_cost_usd = SumOver(InWindow, CostOf)
            /\ est[2] > 0
            /\ days <= 1 => est = RatInt(b.total_cost_usd * 30)
            /\ days > 1 => est[1] * days = b.total_cost_usd * 30 * est[2]

\* A window of two days with a cost of 0.08: the estimate is 1.20
C25_Witness ==
    /\ IsOverview
    /\ WindowLengthDays = 2
    /\ resp.body.total_cost_usd = 8
    /\ resp.body.estimated_monthly_cost_usd = RatInt(120)

-----------------------------------------------------------------------------
(* The top agents of the overview *)

\* the (agent_name, agent_id, agent_type) groups of the executions in the window
AgentGroups ==
    {<<executions[i].agent_name, executions[i].agent_id, executions[i].agent_type>> :
        i \in InWindow}

GroupIds(g) ==
    {i \in InWindow :
        <<executions[i].agent_name, executions[i].agent_id, executions[i].agent_type>> = g}

\* entry e of top_agents stands for group g
EntryOf(e, g) ==
    /\ e.agent_name = OrUnknown(g[1])
    /\ e.agent_id = g[2]
    /\ e.agent_type = g[3]
    /\ e.execution_count = Cardinality(GroupIds(g))
    /\ e.success_count = Cardinality(WithStatus(GroupIds(g), {"success"}))

\* C24: top_agents holds at most 10 entries, each standing for a group
\* (agent_name, agent_id, agent_type) of the executions in the window and no
\* two for the same group, in non-increasing order of execution_count; no
\* group left out has more executions than a group included; and
\* success_rate = success_count / execution_count * 100.
C24_TopAgents ==
    IsOverview =>
        LET top == resp.body.top_agents
            included == {g \in AgentGroups : \E k \in 1 .. Len(top) : EntryOf(top[k], g)}
        IN  /\ Len(top) <= 10
            /\ \A k \in 1 .. Len(top) : \E g \in AgentGroups : EntryOf(top[k], g)
            /\ Cardinality(included) = Len(top)
            /\ \A k \in 1 .. Len(top) - 1 :
                   top[k].execution_count >= top[k + 1].execution_count
            /\ \A g \in AgentGroups \ included : \A h \in included :
                   Cardinality(GroupIds(g)) <= Cardinality(GroupIds(h))
            /\ \A k \in 1 .. Len(top) :
                   /\ top[k].success_rate[2] > 0
                   /\ top[k].success_rate[1] * top[k].execution_count
                          = top[k].success_count * 100 * top[k].success_rate[2]

-----------------------------------------------------------------------------
(* The children of an execution detail *)

\* C26: a returned execution detail lists its trace steps, and its token
\* usages, in ascending order of step_number, in whatever order they were
\* inserted.
C26_StepOrder ==
    (IsDetails /\ resp.status = 200) =>
        /\ \A k \in 1 .. Len(resp.body.traces) - 1 :
               resp.body.traces[k].step_number <= resp.body.traces[k + 1].step_number
        /\ \A k \in 1 .. Len(resp.body.token_usages) - 1 :
               resp.body.token_usages[k].step_number[1]
                   <= resp.body.token_usages[k + 1].step_number[1]

\* C30: GET /executions/{id} of a stored execution ends in 403 exactly
\* when the execution has an owner and the owner is not the caller; an
\* execution with user_id null is returned in full, with every trace step and
\* token usage of it, to whoever asks.
C30_UnownedIsReadable ==
    (IsDetails /\ resp.execution_id \in 1 .. Len(executions)) =>
        LET id == resp.execution_id
            e == executions[id]
        IN  /\ resp.status \in {200, 403}
            /\ resp.status = 403 <=> (e.user_id # Null /\ e.user_id # Some(resp.user))
            /\ e.user_id = Null =>
                   /\ resp.status = 200
                   /\ resp.body.id = id
                   /\ resp.body.user_id = Null
                   /\ resp.body.cost_usd = e.cost_usd
                   /\ {resp.body.traces[k].id : k \in DOMAIN resp.body.traces}
                          = ChildrenOf(traces, id)
                   /\ {resp.body.token_usages[k].id : k \in DOMAIN resp.body.token_usages}
                          = ChildrenOf(token_usages, id)

\* An execution without an owner, with trace steps and a token usage, was
\* returned to a caller
C30_Witness ==
    /\ IsDetails
    /\ resp.status = 200
    /\ resp.body.user_id = Null
    /\ Len(resp.body.traces) > 1
    /\ Len(resp.body.token_usages) > 0

-----------------------------------------------------------------------------
(* Isolation of users *)

\* the ids of the stored executions of resp.user, and the store that holds
\* these executions only
OwnIds ==
    SelectSeq([i \in 1 .. Len(executions) |-> i],
              LAMBDA i : executions[i].user_id = Some(resp.user))

OwnRows == [k \in 1 .. Len(OwnIds) |-> executions[OwnIds[k]]]

\* records read from OwnRows, under the ids their executions have in the store
WithStoredIds(items) == [k \in DOMAIN items |-> [items[k] EXCEPT !.id = OwnIds[@]]]

\* the results the call of resp may return when the store is `rows`
ResultsOn(rows) ==
    CASE resp.op = "overview" ->
             overview_results(rows, Some(resp.user), resp.start_date, resp.end_date)
      [] resp.op = "agent_stats" ->
             get_agent_stats(rows, resp.agent_id, Some(resp.user),
                             resp.start_date, resp.end_date)
      [] resp.op = "cost_summary" ->
             get_cost_summary(rows, Some(resp.user), resp.start_date, resp.end_date)
      [] resp.op = "cost_forecast" ->
             {get_cost_forecast(rows, Some(resp.user), resp.now)}
      [] resp.op = "compare_models" ->
             compare_models(rows, Some(resp.user), resp.start_date, resp.end_date)
      [] resp.op = "list_executions" ->
             list_results(rows, ListQuery(resp.user, resp.req, resp.now))
      [] resp.op = "export" ->
             export_results(rows, resp.user, resp.format, resp.start_date, resp.end_date)

\* a result read from OwnRows, told in the ids of the store
InStoredIds(body) ==
    CASE resp.op = "list_executions" -> [body EXCEPT !.items = WithStoredIds(@)]
      [] resp.op = "export" /\ resp.format = "csv" ->
             [body EXCEPT !.rows = WithStoredIds(@)]
      [] resp.op = "export" /\ resp.format # "csv" ->
             [body EXCEPT !.executions = WithStoredIds(@)]
      [] OTHER -> body

Endpoints ==
    {"overview", "agent_stats", "cost_summary", "cost_forecast", "compare_models",
     "list_executions", "export"}

\* C27: what the overview, the execution list, the agent stats, the cost
\* summary, the cost forecast, the model comparison and the export may return
\* to a caller is what they may return from the store that holds the caller's
\* executions only: executions and budget alerts of other users change nothing.
C27_UserIsolation ==
    (resp.op \in Endpoints /\ resp.status # 422) =>
        LET alone == {InStoredIds(body) : body \in ResultsOn(OwnRows)}
        IN  /\ ResultsOn(executions) = alone
            /\ IF resp.op = "agent_stats"
               THEN (IF resp.status = 404 THEN Null ELSE Some(resp.body)) \in alone
               ELSE resp.body \in alone

\* A user with an execution of their own was served a list while the store
\* held an execution and a budget alert of the other user
C27_Witness ==
    /\ resp.op = "list_executions"
    /\ resp.status = 200
    /\ resp.body.total = 1
    /\ Len(executions) > Len(OwnIds)
    /\ \E i \in DOMAIN alerts : alerts[i].user_id # resp.user

-----------------------------------------------------------------------------
(* An overview read during inserts *)

\* C28: an overview read while executions are inserted is consistent in
\* itself: every cost_by_model percentage is at most 100, the execution
\* counts of top_agents sum to at most total_executions, and
\* active_agents_count is at most total_executions.
C28_ConsistentOverview ==
    IsOverview =>
        LET b == resp.body
        IN  /\ \A k \in 1 .. Len(b.cost_by_model) :
                   RatLeq(b.cost_by_model[k].percentage, RatInt(100))
            /\ SumSeq(Column(b.top_agents, "execution_count")) <= b.total_executions
            /\ b.active_agents_count <= b.total_executions

====
